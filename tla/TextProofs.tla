----------------------------- MODULE TextProofs -----------------------------
(***************************************************************************)
(* Theorems about TextWindows, for buffers, pages, grids, lines and rings  *)
(* of any size: first the textbox, then the terminal's line and history,   *)
(* then the editor's buffer and its page, and last that the buffer is a    *)
(* list of lines (TextLines).                                              *)
(***************************************************************************)
EXTENDS TextWindows, SequenceTheorems, FiniteSetTheorems, WellFoundedInduction, TLAPS

-----------------------------------------------------------------------------
(* The textbox of the terminal: the cells behind its cursor are blank.     *)

Chars == STRING \cup {NL, SPACE, "?", "C", ":", ">"}

Rows == 0 .. TERMINAL_ROWS - 1
Cols == 0 .. TERMINAL_COLS - 1

Boxes == [cols : {TERMINAL_COLS}, rows : {TERMINAL_ROWS}, cells : [Rows -> [Cols -> Chars]],
          cursor_row : Rows, cursor_col : 0 .. TERMINAL_COLS]

BlankBelow(tb) == \A r \in Rows, c \in Cols : r > tb.cursor_row => tb.cells[r][c] = SPACE

Tidy(tb) ==
  /\ tb \in Boxes /\ BlankBelow(tb)
  /\ \A c \in Cols : c >= tb.cursor_col => tb.cells[tb.cursor_row][c] = SPACE

LEMMA Sizes == TERMINAL_ROWS \in Nat /\ TERMINAL_COLS \in Nat /\ TERMINAL_ROWS > 0 /\ TERMINAL_COLS > 0
               /\ 0 \in Rows /\ TERMINAL_ROWS - 1 \in Rows /\ 0 \in Cols /\ 0 \in 0 .. TERMINAL_COLS
<1>1. TERMINAL_ROWS \in Nat \ {0} /\ TERMINAL_COLS \in Nat \ {0}
  BY ConsoleAssumption
<1> QED
  BY <1>1 DEF Rows, Cols

\* A box by its fields.
LEMMA BoxFields ==
  ASSUME NEW tb \in Boxes
  PROVE  /\ tb.cols = TERMINAL_COLS /\ tb.rows = TERMINAL_ROWS
         /\ tb.cells \in [Rows -> [Cols -> Chars]]
         /\ tb.cursor_row \in Rows /\ tb.cursor_col \in 0 .. TERMINAL_COLS
BY DEF Boxes

LEMMA ClearTidy == ASSUME NEW tb \in Boxes PROVE Tidy(textbox_clear(tb))
<1> DEFINE cells == [r \in Rows |-> [c \in Cols |-> SPACE]]
           t == [tb EXCEPT !.cells = cells, !.cursor_row = 0, !.cursor_col = 0]
<1>1. cells \in [Rows -> [Cols -> Chars]] /\ \A r \in Rows, c \in Cols : cells[r][c] = SPACE
  <2> DEFINE blanks == [c \in Cols |-> SPACE]
  <2>1. blanks \in [Cols -> Chars] /\ \A c \in Cols : blanks[c] = SPACE
    BY DEF Chars
  <2> HIDE DEF blanks
  <2>2. cells = [r \in Rows |-> blanks]
    BY DEF blanks
  <2> HIDE DEF cells
  <2> QED
    BY <2>1, <2>2
<1>2. textbox_clear(tb) = t
  BY BoxFields DEF textbox_clear, Rows, Cols
<1> HIDE DEF cells
<1>3. t \in Boxes /\ t.cells = cells /\ t.cursor_row = 0
  BY <1>1, Sizes DEF Boxes
<1> HIDE DEF t
<1> QED
  BY <1>1, <1>2, <1>3, Sizes DEF Tidy, BlankBelow

LEMMA InitTidy == Tidy(textbox_init(TERMINAL_COLS, TERMINAL_ROWS))
<1> DEFINE blanks == [c \in Cols |-> SPACE]
           cells == [r \in Rows |-> blanks]
           tb == [cols |-> TERMINAL_COLS, rows |-> TERMINAL_ROWS, cells |-> cells,
                  cursor_row |-> 0, cursor_col |-> 0]
<1>1. cells \in [Rows -> [Cols -> Chars]]
  <2>1. blanks \in [Cols -> Chars]
    BY DEF Chars
  <2> HIDE DEF blanks
  <2> QED
    BY <2>1
<1>2. textbox_init(TERMINAL_COLS, TERMINAL_ROWS) = textbox_clear(tb)
  <2> DEFINE u == [cols |-> TERMINAL_COLS, rows |-> TERMINAL_ROWS, cells |-> <<>>,
                   cursor_row |-> 0, cursor_col |-> 0]
  <2>1. textbox_init(TERMINAL_COLS, TERMINAL_ROWS) = textbox_clear(u)
    BY DEF textbox_init
  <2>2. \A v : v.rows = TERMINAL_ROWS /\ v.cols = TERMINAL_COLS =>
          textbox_clear(v) = [v EXCEPT !.cells = cells, !.cursor_row = 0, !.cursor_col = 0]
    BY DEF textbox_clear, Rows, Cols
  <2> HIDE DEF cells
  <2>3. textbox_clear(u) = [u EXCEPT !.cells = cells, !.cursor_row = 0, !.cursor_col = 0]
    BY <2>2
  <2>4. textbox_clear(tb) = [tb EXCEPT !.cells = cells, !.cursor_row = 0, !.cursor_col = 0]
    BY <2>2
  <2> QED
    BY <2>1, <2>3, <2>4
<1> HIDE DEF cells
<1>3. tb \in Boxes
  BY <1>1, Sizes DEF Boxes
<1> HIDE DEF tb
<1> QED
  BY <1>2, <1>3, ClearTidy

LEMMA ScrollBelow ==
  ASSUME NEW tb \in Boxes
  PROVE  LET t == textbox_scroll(tb) IN
         /\ t \in Boxes /\ t.cursor_row = tb.cursor_row /\ t.cursor_col = tb.cursor_col
         /\ \A c \in Cols : t.cells[TERMINAL_ROWS - 1][c] = SPACE
<1> DEFINE Lower(r, c) == IF r < TERMINAL_ROWS - 1 THEN tb.cells[r + 1][c] ELSE SPACE
           cells == [r \in Rows |-> [c \in Cols |-> Lower(r, c)]]
           t == [tb EXCEPT !.cells = cells]
<1>1. ASSUME NEW r \in Rows, NEW c \in Cols
      PROVE  Lower(r, c) \in Chars
  <2>1. r < TERMINAL_ROWS - 1 => r + 1 \in Rows
    BY Sizes DEF Rows
  <2> QED
    BY <2>1, BoxFields DEF Chars
<1>2. cells \in [Rows -> [Cols -> Chars]] /\ \A r \in Rows, c \in Cols : cells[r][c] = Lower(r, c)
  <2> HIDE DEF Lower
  <2>1. \A r \in Rows : [c \in Cols |-> Lower(r, c)] \in [Cols -> Chars]
    BY <1>1
  <2> QED
    BY <2>1
<1>3. \A c \in Cols : cells[TERMINAL_ROWS - 1][c] = SPACE
  <2>1. ~(TERMINAL_ROWS - 1 < TERMINAL_ROWS - 1)
    BY Sizes
  <2> HIDE DEF cells
  <2> QED
    BY <1>2, <2>1, Sizes
<1>4. textbox_scroll(tb) = t
  BY BoxFields DEF textbox_scroll, Rows, Cols
<1> HIDE DEF cells
<1>5. t \in Boxes /\ t.cursor_row = tb.cursor_row /\ t.cursor_col = tb.cursor_col /\ t.cells = cells
  BY <1>2 DEF Boxes
<1> QED
  BY <1>3, <1>4, <1>5

\* A new line is blank if what was below was.
LEMMA NewlineTidy ==
  ASSUME NEW tb \in Boxes, BlankBelow(tb)
  PROVE  Tidy(textbox_newline(tb)) /\ textbox_newline(tb).cursor_col = 0
<1> DEFINE row == tb.cursor_row + 1
<1>1. tb.rows = TERMINAL_ROWS /\ tb.cursor_row \in Rows /\ row \in Nat
  BY BoxFields DEF Rows
<1>2. CASE row >= TERMINAL_ROWS
  <2> DEFINE s == textbox_scroll(tb)
             t == [s EXCEPT !.cursor_col = 0, !.cursor_row = TERMINAL_ROWS - 1]
  <2>1. textbox_newline(tb) = t
    BY <1>1, <1>2 DEF textbox_newline
  <2>2. s \in Boxes /\ \A c \in Cols : s.cells[TERMINAL_ROWS - 1][c] = SPACE
    BY ScrollBelow
  <2> HIDE DEF s
  <2>3. t \in Boxes /\ t.cells = s.cells /\ t.cursor_row = TERMINAL_ROWS - 1 /\ t.cursor_col = 0
    BY <2>2, Sizes DEF Boxes
  <2> HIDE DEF t
  <2>4. \A r \in Rows : ~(r > TERMINAL_ROWS - 1)
    BY Sizes DEF Rows
  <2> QED
    BY <2>1, <2>2, <2>3, <2>4 DEF Tidy, BlankBelow
<1>3. CASE ~(row >= TERMINAL_ROWS)
  <2> DEFINE t == [tb EXCEPT !.cursor_col = 0, !.cursor_row = row]
  <2>1. textbox_newline(tb) = t
    BY <1>1, <1>3 DEF textbox_newline
  <2>2. row \in Rows
    BY <1>1, <1>3, Sizes DEF Rows
  <2>3. t \in Boxes /\ t.cells = tb.cells /\ t.cursor_row = row /\ t.cursor_col = 0
    BY <2>2, Sizes DEF Boxes
  <2>4. \A r \in Rows : r > row \/ r = row => r > tb.cursor_row
    BY <1>1 DEF Rows
  <2> HIDE DEF t, row
  <2> QED
    BY <2>1, <2>2, <2>3, <2>4 DEF Tidy, BlankBelow
<1> QED
  BY <1>2, <1>3

\* One cell written, and the cursor moved along the row.
Poked(tb, c, ch, col) ==
  [tb EXCEPT !.cells = [tb.cells EXCEPT ![tb.cursor_row] = [tb.cells[tb.cursor_row] EXCEPT ![c] = ch]],
             !.cursor_col = col]

LEMMA PokedFields ==
  ASSUME NEW tb \in Boxes, NEW c \in Cols, NEW ch \in Chars, NEW col \in 0 .. TERMINAL_COLS
  PROVE  LET t == Poked(tb, c, ch, col) IN
         /\ t \in Boxes /\ t.cursor_row = tb.cursor_row /\ t.cursor_col = col
         /\ \A r \in Rows, d \in Cols :
              t.cells[r][d] = IF r = tb.cursor_row /\ d = c THEN ch ELSE tb.cells[r][d]
<1> DEFINE row == [tb.cells[tb.cursor_row] EXCEPT ![c] = ch]
           cells == [tb.cells EXCEPT ![tb.cursor_row] = row]
           t == [tb EXCEPT !.cells = cells, !.cursor_col = col]
<1>1. tb.cells \in [Rows -> [Cols -> Chars]] /\ tb.cursor_row \in Rows
  BY BoxFields
<1>2. row \in [Cols -> Chars] /\ \A d \in Cols : row[d] = IF d = c THEN ch ELSE tb.cells[tb.cursor_row][d]
  BY <1>1
<1> HIDE DEF row
<1>3. cells \in [Rows -> [Cols -> Chars]]
      /\ \A r \in Rows : cells[r] = IF r = tb.cursor_row THEN row ELSE tb.cells[r]
  BY <1>1, <1>2
<1> HIDE DEF cells
<1>4. t \in Boxes /\ t.cells = cells /\ t.cursor_row = tb.cursor_row /\ t.cursor_col = col
  BY <1>3 DEF Boxes
<1>5. Poked(tb, c, ch, col) = t
  BY DEF Poked, cells, row
<1> HIDE DEF t
<1>6. \A r \in Rows, d \in Cols :
        t.cells[r][d] = IF r = tb.cursor_row /\ d = c THEN ch ELSE tb.cells[r][d]
  BY <1>2, <1>3, <1>4
<1> QED
  BY <1>4, <1>5, <1>6

LEMMA PutcTidy == ASSUME NEW tb, Tidy(tb), NEW ch \in Chars PROVE Tidy(textbox_putc(tb, ch))
<1>1. tb \in Boxes /\ BlankBelow(tb)
  BY DEF Tidy
<1>2. tb.cols = TERMINAL_COLS /\ tb.cursor_row \in Rows /\ tb.cursor_col \in 0 .. TERMINAL_COLS
  BY <1>1, BoxFields
<1>3. CASE ch = NL
  BY <1>1, <1>3, NewlineTidy DEF textbox_putc
<1>4. CASE ch # NL /\ ch = BS
  <2>1. CASE tb.cursor_col = 0
    BY <1>4, <2>1 DEF textbox_putc
  <2>2. CASE tb.cursor_col # 0
    <3>1. PICK c \in Cols : c = tb.cursor_col - 1
      <4>1. tb.cursor_col - 1 \in Cols
        BY <1>2, <2>2, Sizes DEF Cols
      <4> QED
        BY <4>1
    <3> DEFINE t == Poked(tb, c, SPACE, c)
    <3>2. c \in 0 .. TERMINAL_COLS /\ \A d \in Cols : d >= c => d = c \/ d >= tb.cursor_col
      BY <1>2, <3>1, Sizes DEF Cols
    <3>3. textbox_putc(tb, ch) = t
      BY <1>1, <1>4, <2>2, <3>1 DEF textbox_putc, Poked, Boxes
    <3>4. /\ t \in Boxes /\ t.cursor_row = tb.cursor_row /\ t.cursor_col = c
          /\ \A r \in Rows, d \in Cols :
               t.cells[r][d] = IF r = tb.cursor_row /\ d = c THEN SPACE ELSE tb.cells[r][d]
      <4>1. SPACE \in Chars
        BY DEF Chars
      <4> QED
        BY <1>1, <3>2, <4>1, PokedFields
    <3> HIDE DEF t
    <3>5. BlankBelow(t)
      <4> SUFFICES ASSUME NEW r \in Rows, NEW d \in Cols, r > t.cursor_row PROVE t.cells[r][d] = SPACE
        BY DEF BlankBelow
      <4>1. r # tb.cursor_row /\ r > tb.cursor_row
        BY <1>2, <3>4 DEF Rows
      <4> QED
        BY <1>1, <3>4, <4>1 DEF BlankBelow
    <3>6. ASSUME NEW d \in Cols, d >= c PROVE t.cells[t.cursor_row][d] = SPACE
      <4>1. t.cells[t.cursor_row][d] = IF d = c THEN SPACE ELSE tb.cells[tb.cursor_row][d]
        BY <1>2, <3>4
      <4>2. d # c => tb.cells[tb.cursor_row][d] = SPACE
        BY <3>2, <3>6 DEF Tidy
      <4> QED
        BY <4>1, <4>2
    <3> QED
      BY <3>3, <3>4, <3>5, <3>6 DEF Tidy
  <2> QED
    BY <2>1, <2>2
<1>5. CASE ch # NL /\ ch # BS
  <2> DEFINE u == IF tb.cursor_col >= tb.cols THEN textbox_newline(tb) ELSE tb
             t == Poked(u, u.cursor_col, ch, u.cursor_col + 1)
  <2>1. Tidy(u) /\ u.cursor_col \in Cols
    <3>1. CASE tb.cursor_col >= tb.cols
      BY <1>1, <3>1, NewlineTidy, Sizes
    <3>2. CASE ~(tb.cursor_col >= tb.cols)
      BY <1>2, <3>2, Sizes DEF Cols
    <3> QED
      BY <3>1, <3>2
  <2>2. textbox_putc(tb, ch) = [u EXCEPT !.cells[u.cursor_row][u.cursor_col] = ch, !.cursor_col = @ + 1]
    BY <1>5 DEF textbox_putc
  <2> HIDE DEF u
  <2>3. u \in Boxes /\ BlankBelow(u)
    BY <2>1 DEF Tidy
  <2>4. textbox_putc(tb, ch) = t
    BY <2>2, <2>3 DEF Poked, Boxes
  <2>5. PICK c \in Cols : c = u.cursor_col
    BY <2>1
  <2>6. c + 1 \in 0 .. TERMINAL_COLS /\ \A d \in Cols : d >= c + 1 => d # c /\ d >= c
    BY Sizes DEF Cols
  <2>7. /\ t \in Boxes /\ t.cursor_row = u.cursor_row /\ t.cursor_col = c + 1
        /\ \A r \in Rows, d \in Cols :
             t.cells[r][d] = IF r = u.cursor_row /\ d = c THEN ch ELSE u.cells[r][d]
    BY <2>3, <2>5, <2>6, PokedFields
  <2> HIDE DEF t
  <2>8. BlankBelow(t)
    <3>1. ASSUME NEW r \in Rows, NEW d \in Cols, r > t.cursor_row PROVE t.cells[r][d] = SPACE
      <4>1. r # u.cursor_row /\ r > u.cursor_row
        BY <2>3, <2>7, <3>1, BoxFields DEF Rows
      <4> QED
        BY <2>3, <2>7, <4>1 DEF BlankBelow
    <3> QED
      BY <3>1 DEF BlankBelow
  <2>9. \A d \in Cols : d >= c + 1 => t.cells[t.cursor_row][d] = SPACE
    <3> SUFFICES ASSUME NEW d \in Cols, d >= c + 1 PROVE t.cells[t.cursor_row][d] = SPACE
      OBVIOUS
    <3>1. u.cursor_row \in Rows
      BY <2>3, BoxFields
    <3>2. t.cells[t.cursor_row][d] = u.cells[u.cursor_row][d]
      BY <2>6, <2>7, <3>1
    <3>3. u.cells[u.cursor_row][d] = SPACE
      BY <2>1, <2>5, <2>6 DEF Tidy
    <3> QED
      BY <3>2, <3>3
  <2> QED
    BY <2>4, <2>7, <2>8, <2>9 DEF Tidy
<1> QED
  BY <1>3, <1>4, <1>5

\* A non-empty set of numbers has a least one.
LEMMA SomeLeast ==
  ASSUME NEW I, I \subseteq Nat, I # {}
  PROVE  \E m \in I : \A i \in I : m <= i
<1>1. \E m \in I : \A i \in I : ~(<<i, m>> \in OpToRel(<, Nat))
  BY NatLessThanWellFounded, WFMin, Zenon
<1>2. PICK m \in I : \A i \in I : ~(<<i, m>> \in OpToRel(<, Nat))
  BY <1>1
<1>3. \A i, j \in Nat : i < j => <<i, j>> \in OpToRel(<, Nat)
  BY Zenon DEF OpToRel
<1>4. \A i \in I : i \in Nat
  OBVIOUS
<1>5. \A i \in I : ~(i < m)
  BY <1>2, <1>3, <1>4, Zenon
<1>6. \A i \in I : m <= i
  BY <1>4, <1>5
<1> QED
  BY <1>2, <1>6

\* The boxes after each of the first n characters of s.
Puts(tb, s, n, q) == q = [j \in 0 .. n |-> IF j = 0 THEN tb ELSE textbox_putc(q[j - 1], s[j])]

LEMMA MorePuts ==
  ASSUME NEW tb, NEW s, NEW n \in Nat, NEW q, Puts(tb, s, n, q)
  PROVE  \E u : Puts(tb, s, n + 1, u)
<1> DEFINE u == [j \in 0 .. n + 1 |-> IF j <= n THEN q[j] ELSE textbox_putc(q[n], s[n + 1])]
<1>1. \A j \in 0 .. n : q[j] = IF j = 0 THEN tb ELSE textbox_putc(q[j - 1], s[j])
  BY DEF Puts
<1>2. \A j \in 0 .. n : u[j] = q[j]
  <2>1. \A j \in 0 .. n : j \in 0 .. n + 1 /\ j <= n
    OBVIOUS
  <2> QED
    BY <2>1
<1>3. ASSUME NEW j \in 0 .. n + 1
      PROVE  (IF j <= n THEN q[j] ELSE textbox_putc(q[n], s[n + 1]))
               = IF j = 0 THEN tb ELSE textbox_putc(u[j - 1], s[j])
  <2> HIDE DEF u
  <2>1. CASE j = 0
    <3>1. 0 \in 0 .. n /\ 0 <= n
      OBVIOUS
    <3> QED
      BY <1>1, <2>1, <3>1
  <2>2. CASE j # 0 /\ j <= n
    <3>1. j \in 0 .. n /\ j - 1 \in 0 .. n
      BY <2>2
    <3> QED
      BY <1>1, <1>2, <2>2, <3>1
  <2>3. CASE ~(j <= n)
    <3>1. j = n + 1 /\ j - 1 = n /\ n \in 0 .. n /\ j # 0
      BY <2>3
    <3> QED
      BY <1>2, <2>3, <3>1
  <2> QED
    BY <2>1, <2>2, <2>3
<1>4. u = [j \in 0 .. n + 1 |-> IF j = 0 THEN tb ELSE textbox_putc(u[j - 1], s[j])]
  BY <1>3
<1> HIDE DEF u
<1> QED
  BY <1>4 DEF Puts

LEMMA PutsExist == ASSUME NEW tb, NEW s, NEW n \in Nat PROVE \E q : Puts(tb, s, n, q)
<1> DEFINE I == {j \in Nat : ~\E q : Puts(tb, s, j, q)}
<1> SUFFICES ASSUME I # {} PROVE FALSE
  OBVIOUS
<1>1. PICK m \in I : \A i \in I : m <= i
  BY SomeLeast
<1>2. m \in Nat /\ ~\E q : Puts(tb, s, m, q)
  OBVIOUS
<1>3. CASE m = 0
  <2> DEFINE q == [j \in 0 .. 0 |-> tb]
  <2>1. \A j \in 0 .. 0 : j = 0
    OBVIOUS
  <2>2. Puts(tb, s, 0, q)
    BY <2>1 DEF Puts
  <2> QED
    BY <1>2, <1>3, <2>2
<1>4. CASE m # 0
  <2>1. m - 1 \in Nat /\ (m - 1) + 1 = m /\ ~(m <= m - 1)
    BY <1>2, <1>4
  <2>2. PICK q : Puts(tb, s, m - 1, q)
    BY <1>1, <2>1
  <2> HIDE DEF I
  <2>3. \E u : Puts(tb, s, (m - 1) + 1, u)
    BY <2>1, <2>2, MorePuts
  <2> QED
    BY <1>2, <2>1, <2>3
<1> QED
  BY <1>3, <1>4

LEMMA PutsTidy ==
  ASSUME NEW tb, Tidy(tb), NEW s \in Seq(Chars)
  PROVE  Tidy(textbox_puts(tb, s))
<1>0. PICK n \in Nat : n = Len(s)
  OBVIOUS
<1> DEFINE q == CHOOSE u : Puts(tb, s, n, u)
<1>1. textbox_puts(tb, s) = q[n]
  BY <1>0 DEF textbox_puts, Puts
<1>2. Puts(tb, s, n, q)
  BY PutsExist
<1> HIDE DEF q
<1>3. \A j \in 0 .. n : q[j] = IF j = 0 THEN tb ELSE textbox_putc(q[j - 1], s[j])
  BY <1>2 DEF Puts
<1> DEFINE I == {j \in 0 .. n : ~Tidy(q[j])}
<1>4. I = {}
  <2> SUFFICES ASSUME I # {} PROVE FALSE
    OBVIOUS
  <2>0. I \subseteq Nat
    OBVIOUS
  <2>1. PICK m \in I : \A i \in I : m <= i
    BY <2>0, SomeLeast
  <2>2. m \in 0 .. n /\ ~Tidy(q[m])
    OBVIOUS
  <2>3. m # 0
    BY <1>3, <2>2
  <2>4. m \in 1 .. n /\ m - 1 \in 0 .. n /\ ~(m <= m - 1)
    BY <2>2, <2>3
  <2>5. Tidy(q[m - 1])
    BY <2>1, <2>4
  <2> HIDE DEF I
  <2>6. s[m] \in Chars
    BY <1>0, <2>4, ElementOfSeq
  <2>7. q[m] = textbox_putc(q[m - 1], s[m])
    BY <1>3, <2>2, <2>3
  <2> QED
    BY <2>2, <2>5, <2>6, <2>7, PutcTidy
<1>5. Tidy(q[n])
  BY <1>4
<1> QED
  BY <1>1, <1>5

-----------------------------------------------------------------------------
(* The line and the ring of lines.                                         *)

Room == 0 .. TERMINAL_MAX_LINE - 1
Lines == {s \in Seq(Chars) : Len(s) <= TERMINAL_MAX_LINE - 1}
Ring == 0 .. TERMINAL_HISTORY_N - 1

LineOk(l) ==
  /\ l \in [chars : [Slots -> Chars], len : Room, cursor : Room, drawn_len : Room,
            prompt_row : Rows, prompt_col : 0 .. TERMINAL_COLS]
  /\ l.cursor <= l.len

HistoryOk ==
  /\ entered \in Seq(Lines)
  /\ history \in [ring : [Ring -> Seq(Chars)], count : 0 .. TERMINAL_HISTORY_N, head : Ring,
                  pos : -1 .. TERMINAL_HISTORY_N]
  /\ HistoryRecalls

LEMMA Bounds ==
  /\ TERMINAL_MAX_LINE \in Nat /\ TERMINAL_MAX_LINE > 0 /\ 0 \in Room
  /\ TERMINAL_HISTORY_N \in Nat /\ TERMINAL_HISTORY_N > 0 /\ 0 \in Ring
<1>1. TERMINAL_MAX_LINE \in Nat \ {0} /\ TERMINAL_HISTORY_N \in Nat \ {0}
  BY ConsoleAssumption
<1> QED
  BY <1>1 DEF Room, Ring

LEMMA LineFields ==
  ASSUME NEW l, LineOk(l)
  PROVE  /\ l.chars \in [Slots -> Chars] /\ l.len \in Room /\ l.cursor \in Room
         /\ l.drawn_len \in Room /\ l.prompt_row \in Rows /\ l.prompt_col \in 0 .. TERMINAL_COLS
         /\ l.cursor <= l.len
BY DEF LineOk

\* A line of other characters, length and cursor, as drawn before.
Edited(l, chars, len, cursor) == [l EXCEPT !.chars = chars, !.len = len, !.cursor = cursor]

\* What editing leaves of the line l0.
EditOf(l, l0) ==
  /\ LineOk(l)
  /\ l.drawn_len = l0.drawn_len /\ l.prompt_row = l0.prompt_row /\ l.prompt_col = l0.prompt_col

LEMMA EditedOk ==
  ASSUME NEW l, LineOk(l), NEW chars \in [Slots -> Chars], NEW len \in Room,
         NEW cursor \in Room, cursor <= len
  PROVE  EditOf(Edited(l, chars, len, cursor), l)
BY DEF LineOk, EditOf, Edited

LEMMA InsertOk == ASSUME NEW l, LineOk(l), NEW c \in Chars PROVE EditOf(ti_insert(l, c), l)
<1>1. CASE l.len >= TERMINAL_MAX_LINE - 1
  BY <1>1 DEF ti_insert, EditOf
<1>2. CASE ~(l.len >= TERMINAL_MAX_LINE - 1)
  <2> DEFINE chars == [i \in Slots |-> IF i = l.cursor THEN c
                                       ELSE IF i \in l.cursor + 1 .. l.len THEN l.chars[i - 1]
                                       ELSE l.chars[i]]
  <2>1. chars \in [Slots -> Chars]
    <3> SUFFICES ASSUME NEW i \in Slots
                 PROVE  (IF i = l.cursor THEN c
                         ELSE IF i \in l.cursor + 1 .. l.len THEN l.chars[i - 1]
                         ELSE l.chars[i]) \in Chars
      OBVIOUS
    <3>1. i \in l.cursor + 1 .. l.len => i - 1 \in Slots
      BY LineFields, Bounds DEF Slots, Room
    <3> QED
      BY <3>1, LineFields
  <2>2. ti_insert(l, c) = [l EXCEPT !.chars = chars, !.cursor = l.cursor + 1, !.len = l.len + 1]
    BY <1>2 DEF ti_insert
  <2> HIDE DEF chars
  <2>3. ti_insert(l, c) = Edited(l, chars, l.len + 1, l.cursor + 1)
    BY <2>2 DEF LineOk, Edited
  <2>4. l.len + 1 \in Room /\ l.cursor + 1 \in Room /\ l.cursor + 1 <= l.len + 1
    BY <1>2, LineFields, Bounds DEF Room
  <2> QED
    BY <2>1, <2>3, <2>4, EditedOk
<1> QED
  BY <1>1, <1>2

LEMMA EraseOk ==
  ASSUME NEW l, LineOk(l), NEW at \in Room, at < l.len, l.cursor <= l.len - 1
  PROVE  EditOf(ti_erase(l, at), l)
<1> DEFINE chars == [i \in Slots |-> IF i \in at .. l.len - 2 THEN l.chars[i + 1] ELSE l.chars[i]]
<1>1. chars \in [Slots -> Chars]
  <2> SUFFICES ASSUME NEW i \in Slots
               PROVE  (IF i \in at .. l.len - 2 THEN l.chars[i + 1] ELSE l.chars[i]) \in Chars
    OBVIOUS
  <2>1. i \in at .. l.len - 2 => i + 1 \in Slots
    BY LineFields, Bounds DEF Slots, Room
  <2> QED
    BY <2>1, LineFields
<1>2. ti_erase(l, at) = [l EXCEPT !.chars = chars, !.len = l.len - 1]
  BY DEF ti_erase
<1> HIDE DEF chars
<1>3. ti_erase(l, at) = Edited(l, chars, l.len - 1, l.cursor)
  BY <1>2 DEF LineOk, Edited
<1>4. l.len - 1 \in Room
  BY LineFields, Bounds DEF Room
<1> QED
  BY <1>1, <1>3, <1>4, LineFields, EditedOk

\* What a key makes of the line; one that erases has something to erase.
LEMMA KeyOk ==
  ASSUME NEW l, LineOk(l), NEW key \in EditKeys,
         key = BS => l.cursor > 0, key = "DELETE" => l.cursor < l.len
  PROVE  EditOf(terminal_input_key(l, key), l)
<1>0. /\ l.chars \in [Slots -> Chars] /\ l.len \in Room /\ l.cursor \in Room /\ l.cursor <= l.len
      /\ 0 \in Room /\ 0 <= l.len
  BY LineFields, Bounds DEF Room
<1> USE DEF BS
<1>a. key \in Typed => key \notin {"LEFT", "RIGHT", "HOME", "END", "DELETE", BS}
  BY ConsoleAssumption
<1>1. ASSUME NEW k \in Room, k <= l.len, terminal_input_key(l, key) = [l EXCEPT !.cursor = k]
      PROVE  EditOf(terminal_input_key(l, key), l)
  <2>1. [l EXCEPT !.cursor = k] = Edited(l, l.chars, l.len, k)
    BY DEF LineOk, Edited
  <2> QED
    BY <1>0, <1>1, <2>1, EditedOk
<1>2. CASE key = "LEFT"
  <2> DEFINE k == IF l.cursor > 0 THEN l.cursor - 1 ELSE l.cursor
  <2>1. terminal_input_key(l, key) = [l EXCEPT !.cursor = k]
    BY <1>a, <1>2 DEF terminal_input_key
  <2>2. k \in Room /\ k <= l.len
    BY <1>0, Bounds DEF Room
  <2> QED
    BY <1>1, <2>1, <2>2
<1>3. CASE key = "RIGHT"
  <2> DEFINE k == IF l.cursor < l.len THEN l.cursor + 1 ELSE l.cursor
  <2>1. terminal_input_key(l, key) = [l EXCEPT !.cursor = k]
    BY <1>a, <1>3 DEF terminal_input_key
  <2>2. k \in Room /\ k <= l.len
    BY <1>0, Bounds DEF Room
  <2> QED
    BY <1>1, <2>1, <2>2
<1>4. CASE key = "HOME"
  <2>1. terminal_input_key(l, key) = [l EXCEPT !.cursor = 0]
    BY <1>a, <1>4 DEF terminal_input_key
  <2> QED
    BY <1>0, <1>1, <2>1
<1>5. CASE key = "END"
  <2>1. terminal_input_key(l, key) = [l EXCEPT !.cursor = l.len]
    BY <1>a, <1>5 DEF terminal_input_key
  <2>2. l.len <= l.len
    BY <1>0 DEF Room
  <2> QED
    BY <1>0, <1>1, <2>1, <2>2
<1>6. CASE key = "DELETE"
  <2>1. terminal_input_key(l, key) = ti_erase(l, l.cursor)
    BY <1>a, <1>6 DEF terminal_input_key
  <2>2. l.cursor < l.len /\ l.cursor <= l.len - 1
    BY <1>0, <1>6 DEF Room
  <2> QED
    BY <1>0, <2>1, <2>2, EraseOk
<1>7. CASE key = BS
  <2> DEFINE m == [l EXCEPT !.cursor = l.cursor - 1]
  <2>0. l.cursor > 0
    BY <1>7
  <2>1. terminal_input_key(l, key) = ti_erase(m, l.cursor - 1)
    BY <1>a, <1>7, <2>0 DEF terminal_input_key
  <2>2. m = Edited(l, l.chars, l.len, l.cursor - 1)
    BY DEF LineOk, Edited
  <2>3. l.cursor - 1 \in Room /\ l.cursor - 1 <= l.len /\ l.cursor - 1 < l.len /\ l.cursor - 1 <= l.len - 1
    BY <1>0, <2>0, Bounds DEF Room
  <2>4. EditOf(m, l) /\ m.len = l.len /\ m.cursor = l.cursor - 1
    <3>1. EditOf(m, l)
      BY <1>0, <2>2, <2>3, EditedOk
    <3> QED
      BY <3>1 DEF LineOk
  <2> HIDE DEF m
  <2>5. EditOf(ti_erase(m, l.cursor - 1), m)
    BY <2>3, <2>4, EraseOk DEF EditOf
  <2> QED
    BY <2>1, <2>4, <2>5 DEF EditOf
<1>8. CASE key \in Typed /\ key \notin {"LEFT", "RIGHT", "HOME", "END", "DELETE", BS}
  <2>1. terminal_input_key(l, key) = ti_insert(l, key)
    BY <1>8 DEF terminal_input_key
  <2>2. key \in Chars
    BY <1>8, ConsoleAssumption DEF Chars
  <2> QED
    BY <2>1, <2>2, InsertOk
<1> QED
  BY <1>2, <1>3, <1>4, <1>5, <1>6, <1>7, <1>8 DEF EditKeys

\* Nearby places of the ring: where the lines back from its head are.
LEMMA Places ==
  ASSUME NEW h \in Ring, NEW back \in 0 .. TERMINAL_HISTORY_N - 1
  PROVE  /\ (h - 1 - back + TERMINAL_HISTORY_N * 2) % TERMINAL_HISTORY_N
              = IF h - 1 - back >= 0 THEN h - 1 - back ELSE h - 1 - back + TERMINAL_HISTORY_N
         /\ (h + 1) % TERMINAL_HISTORY_N = IF h + 1 < TERMINAL_HISTORY_N THEN h + 1 ELSE 0
<1> DEFINE n == TERMINAL_HISTORY_N
<1>1. n \in Nat \ {0} /\ h \in 0 .. n - 1 /\ back \in 0 .. n - 1
  BY Bounds DEF Ring
<1> HIDE DEF n
<1>2. \A x \in 0 .. n - 1 : x % n = x /\ (x + n) % n = x /\ (x + n * 2) % n = x
  BY <1>1
<1>3. n % n = 0
  BY <1>1
<1>4. (h + 1) % n = IF h + 1 < n THEN h + 1 ELSE 0
  <2>1. h + 1 \in 0 .. n - 1 \/ h + 1 = n
    BY <1>1
  <2> QED
    BY <1>1, <1>2, <1>3, <2>1
<1>5. (h - 1 - back + n * 2) % n = IF h - 1 - back >= 0 THEN h - 1 - back ELSE h - 1 - back + n
  <2>1. CASE h - 1 - back >= 0
    <3>1. h - 1 - back \in 0 .. n - 1
      BY <1>1, <2>1
    <3> QED
      BY <1>2, <2>1, <3>1
  <2>2. CASE ~(h - 1 - back >= 0)
    <3>1. h - 1 - back + n \in 0 .. n - 1 /\ h - 1 - back + n * 2 = (h - 1 - back + n) + n
      BY <1>1, <2>2
    <3>2. ((h - 1 - back + n) + n) % n = h - 1 - back + n
      BY <1>2, <3>1
    <3> QED
      BY <2>2, <3>1, <3>2
  <2> QED
    BY <2>1, <2>2
<1> QED
  BY <1>4, <1>5 DEF n

\* One place back from the next place is one place less.
LEMMA OneOn ==
  ASSUME NEW h \in Ring, NEW g, g = IF h + 1 < TERMINAL_HISTORY_N THEN h + 1 ELSE 0,
         NEW back \in 0 .. TERMINAL_HISTORY_N - 1
  PROVE  LET place(k, b) == IF k - 1 - b >= 0 THEN k - 1 - b ELSE k - 1 - b + TERMINAL_HISTORY_N
         IN  IF back = 0 THEN place(g, back) = h
             ELSE place(g, back) = place(h, back - 1) /\ place(g, back) # h
BY Bounds DEF Ring

\* A line pushed is the first one recalled; the others are one further back.
LEMMA PushRecalls ==
  ASSUME HistoryOk, NEW s \in Lines, s # <<>>,
         NEW h, h = terminal_history_push(history, s),
         NEW es, es = Append(entered, s)
  PROVE  /\ h \in [ring : [Ring -> Seq(Chars)], count : 0 .. TERMINAL_HISTORY_N, head : Ring,
                   pos : -1 .. TERMINAL_HISTORY_N]
         /\ h.count = IF Len(es) < TERMINAL_HISTORY_N THEN Len(es) ELSE TERMINAL_HISTORY_N
         /\ h.pos \in -1 .. h.count - 1
         /\ \A back \in 0 .. h.count - 1 : Recalled(h, back) = es[Len(es) - back]
<1> DEFINE ring == [history.ring EXCEPT ![history.head] = s]
           head == (history.head + 1) % TERMINAL_HISTORY_N
           count == IF history.count < TERMINAL_HISTORY_N THEN history.count + 1 ELSE history.count
<1>0. /\ history.ring \in [Ring -> Seq(Chars)] /\ history.head \in Ring
      /\ history.count \in 0 .. TERMINAL_HISTORY_N /\ entered \in Seq(Lines) /\ s \in Seq(Chars)
  BY DEF HistoryOk, Lines
<1>1. PICK n \in Nat : n = Len(entered)
  BY <1>0
<1>2. /\ Len(es) = n + 1 /\ es[n + 1] = s /\ \A i \in 1 .. n : es[i] = entered[i]
  BY <1>0, <1>1
<1>3. h = [history EXCEPT !.ring = ring, !.head = head, !.count = count, !.pos = -1]
  BY DEF terminal_history_push
<1>4. ring \in [Ring -> Seq(Chars)] /\ \A i \in Ring : ring[i] = IF i = history.head THEN s ELSE history.ring[i]
  BY <1>0
<1>5. head \in Ring /\ head = IF history.head + 1 < TERMINAL_HISTORY_N THEN history.head + 1 ELSE 0
  <2>1. 0 \in 0 .. TERMINAL_HISTORY_N - 1
    BY Bounds
  <2>2. head = IF history.head + 1 < TERMINAL_HISTORY_N THEN history.head + 1 ELSE 0
    BY <1>0, <2>1, Places
  <2> HIDE DEF head
  <2>3. PICK p \in 0 .. TERMINAL_HISTORY_N - 1 : p = history.head
    BY <1>0 DEF Ring
  <2>4. head \in 0 .. TERMINAL_HISTORY_N - 1
    BY <2>2, <2>3, Bounds
  <2> QED
    BY <2>2, <2>4 DEF Ring
<1>6. history.count = IF n < TERMINAL_HISTORY_N THEN n ELSE TERMINAL_HISTORY_N
  BY <1>1 DEF HistoryOk, HistoryRecalls
<1>7. count \in 1 .. TERMINAL_HISTORY_N /\ count = IF n + 1 < TERMINAL_HISTORY_N THEN n + 1 ELSE TERMINAL_HISTORY_N
  BY <1>6, Bounds
<1> HIDE DEF ring, head, count
<1>8. /\ h \in [ring : [Ring -> Seq(Chars)], count : 0 .. TERMINAL_HISTORY_N, head : Ring,
                pos : -1 .. TERMINAL_HISTORY_N]
      /\ h.ring = ring /\ h.head = head /\ h.count = count /\ h.pos = -1
  <2>1. count \in 0 .. TERMINAL_HISTORY_N /\ -1 \in -1 .. TERMINAL_HISTORY_N
    BY <1>7, Bounds
  <2> QED
    BY <1>3, <1>4, <1>5, <2>1 DEF HistoryOk
<1>9. ASSUME NEW back \in 0 .. count - 1
      PROVE  Recalled(h, back) = es[(n + 1) - back]
  <2>0. back \in 0 .. TERMINAL_HISTORY_N - 1
    BY <1>7, Bounds
  <2> DEFINE place == IF head - 1 - back >= 0 THEN head - 1 - back ELSE head - 1 - back + TERMINAL_HISTORY_N
  <2>1. Recalled(h, back) = ring[place]
    BY <1>5, <1>8, <2>0, Places DEF Recalled
  <2>2. place \in Ring
    BY <1>5, <2>0, Bounds DEF Ring
  <2>3. CASE back = 0
    <3>1. place = history.head
      <4>1. PICK p \in Ring : p = history.head
        BY <1>0
      <4>2. head = IF p + 1 < TERMINAL_HISTORY_N THEN p + 1 ELSE 0
        BY <1>5, <4>1
      <4> QED
        BY <2>0, <2>3, <4>1, <4>2, OneOn
    <3>2. ring[place] = s
      BY <1>0, <1>4, <3>1
    <3> QED
      BY <1>2, <2>1, <2>3, <3>2
  <2>4. CASE back # 0
    <3> DEFINE old == IF history.head - 1 - (back - 1) >= 0 THEN history.head - 1 - (back - 1)
                      ELSE history.head - 1 - (back - 1) + TERMINAL_HISTORY_N
    <3>0. back - 1 \in 0 .. TERMINAL_HISTORY_N - 1 /\ back - 1 \in 0 .. history.count - 1
      BY <1>6, <1>7, <2>0, <2>4, Bounds
    <3>1. place = old /\ old # history.head
      <4>1. PICK p \in Ring : p = history.head
        BY <1>0
      <4>2. head = IF p + 1 < TERMINAL_HISTORY_N THEN p + 1 ELSE 0
        BY <1>5, <4>1
      <4> QED
        BY <2>0, <2>4, <4>1, <4>2, OneOn
    <3>2. Recalled(history, back - 1) = history.ring[old]
      BY <1>0, <3>0, Places DEF Recalled
    <3> HIDE DEF place, old
    <3>3. ring[place] = Recalled(history, back - 1)
      BY <1>4, <2>2, <3>1, <3>2
    <3>4. Recalled(history, back - 1) = entered[n - (back - 1)]
      BY <1>1, <3>0 DEF HistoryOk, HistoryRecalls
    <3>5. n - (back - 1) = (n + 1) - back /\ (n + 1) - back \in 1 .. n
      BY <1>6, <1>7, <2>4, <3>0, Bounds
    <3>6. es[(n + 1) - back] = entered[n - (back - 1)]
      BY <1>2, <3>5
    <3> QED
      BY <2>1, <3>3, <3>4, <3>6
  <2> QED
    BY <2>3, <2>4
<1>10. -1 \in -1 .. count - 1
  BY <1>7, Bounds
<1> QED
  BY <1>2, <1>7, <1>8, <1>9, <1>10

-----------------------------------------------------------------------------
(* The order of the cells.                                                 *)

LEMMA RowsBefore == ASSUME NEW k \in Int, k <= -1, NEW n \in Nat PROVE k * n <= -n
<1>1. (k + 1) * n = k * n + n
  OBVIOUS
<1>2. (-(k + 1)) * n \in Nat
  OBVIOUS
<1>3. (k + 1) * n = -((-(k + 1)) * n)
  OBVIOUS
<1> QED
  BY <1>1, <1>2, <1>3

LEMMA BehindPrompt ==
  ASSUME NEW r \in Rows, NEW c \in Cols, NEW row \in Rows, NEW col \in 0 .. TERMINAL_COLS,
         ~((r - row) * TERMINAL_COLS + c - col < 0)
  PROVE  r > row \/ (r = row /\ c >= col)
<1>1. r \in Int /\ row \in Int /\ c \in Int /\ col \in Int /\ c < TERMINAL_COLS /\ 0 <= col
  BY Sizes DEF Rows, Cols
<1>2. CASE r < row
  <2>1. r - row \in Int /\ r - row <= -1
    BY <1>1, <1>2
  <2>2. PICK p \in Int : p = (r - row) * TERMINAL_COLS /\ p <= -TERMINAL_COLS
    BY <2>1, RowsBefore, Sizes
  <2> QED
    BY <1>1, <2>2, Sizes
<1>3. CASE r = row
  <2>1. (r - row) * TERMINAL_COLS = 0
    BY <1>1, <1>3, Sizes
  <2> QED
    BY <1>1, <1>3, <2>1
<1> QED
  BY <1>1, <1>2, <1>3

\* A row below the one that character k of the line is on.
LEMMA BelowLine ==
  ASSUME NEW r \in Rows, NEW c \in Cols, NEW row \in Rows, NEW k \in Nat, NEW col \in 0 .. k,
         r > row + k \div TERMINAL_COLS
  PROVE  (r - row) * TERMINAL_COLS + c - col >= k - col
<1> DEFINE q == k \div TERMINAL_COLS
<1>1. q \in Nat /\ k < (q + 1) * TERMINAL_COLS
  BY Sizes
<1> HIDE DEF q
<1>2. r \in Int /\ row \in Int /\ c \in Nat /\ col \in Nat /\ TERMINAL_COLS \in Nat
  BY Sizes DEF Rows, Cols
<1>3. (q + 1) - (r - row) \in Int /\ (q + 1) - (r - row) <= 0
  BY <1>1, <1>2 DEF q
<1>4. ((q + 1) - (r - row)) * TERMINAL_COLS <= 0
  <2>1. (-((q + 1) - (r - row))) * TERMINAL_COLS \in Nat
    BY <1>2, <1>3
  <2> QED
    BY <1>2, <1>3, <2>1
<1>5. ((q + 1) - (r - row)) * TERMINAL_COLS = (q + 1) * TERMINAL_COLS - (r - row) * TERMINAL_COLS
  BY <1>1, <1>2
<1>6. PICK a \in Int, b \in Int : a = (q + 1) * TERMINAL_COLS /\ b = (r - row) * TERMINAL_COLS
  BY <1>1, <1>2
<1> QED
  BY <1>1, <1>2, <1>4, <1>5, <1>6

-----------------------------------------------------------------------------
(* The terminal: its line is on the screen, its ring holds the last lines. *)

Shown ==
  /\ screen \in Boxes /\ above \in [Rows -> [Cols -> Chars]]
  /\ line.drawn_len = line.len
  /\ ScreenShowsLine

ConsoleInv == LineOk(line) /\ HistoryOk /\ Shown

LEMMA IndexIsInt ==
  ASSUME NEW l, LineOk(l), NEW r \in Rows, NEW c \in Cols
  PROVE  IndexAt(l, r, c) \in Int
<1>1. r \in Int /\ c \in Int /\ l.prompt_row \in Int /\ l.prompt_col \in Int /\ TERMINAL_COLS \in Int
  BY LineFields, Sizes DEF Rows, Cols
<1>2. (r - l.prompt_row) * TERMINAL_COLS \in Int
  BY <1>1
<1> QED
  BY <1>1, <1>2 DEF IndexAt

\* Drawing an edited line over the one that was drawn.
LEMMA RedrawShows ==
  ASSUME LineOk(line), Shown, NEW l, EditOf(l, line), Redrawn(l), UNCHANGED above
  PROVE  LineOk(line') /\ Shown'
<1> DEFINE Cell(r, c) == LET i == IndexAt(l, r, c)
                         IN  IF i \notin 0 .. Painted(l) - 1 THEN screen.cells[r][c]
                             ELSE IF i < l.len THEN l.chars[i] ELSE SPACE
           cells == [r \in Rows |-> [c \in Cols |-> Cell(r, c)]]
           visible == RowOf(l, l.cursor) < TERMINAL_ROWS
           row == IF visible THEN RowOf(l, l.cursor) ELSE TERMINAL_ROWS - 1
           col == IF visible THEN ColOf(l, l.cursor) ELSE TERMINAL_COLS - 1
<1>0. LineOk(l) /\ screen \in Boxes
  BY DEF EditOf, Shown
<1>1. screen' = [screen EXCEPT !.cells = cells, !.cursor_row = row, !.cursor_col = col]
  BY <1>0, BoxFields DEF Redrawn, terminal_redraw_input, Rows, Cols
<1>2. ASSUME NEW r \in Rows, NEW c \in Cols
      PROVE  /\ Cell(r, c) \in Chars
             /\ LET i == IndexAt(l, r, c)
                IN  Cell(r, c) = IF i < 0 THEN above[r][c] ELSE IF i < l.len THEN l.chars[i] ELSE SPACE
  <2>1. PICK i \in Int : i = IndexAt(l, r, c)
    BY <1>0, IndexIsInt
  <2>2. i = IndexAt(line, r, c)
    BY <2>1 DEF EditOf, IndexAt
  <2>3. screen.cells[r][c] = IF i < 0 THEN above[r][c] ELSE IF i < line.len THEN line.chars[i] ELSE SPACE
    BY <2>2 DEF Shown, ScreenShowsLine, Rows, Cols
  <2>4. l.len \in Nat /\ line.len \in Nat /\ l.drawn_len = line.len
    BY <1>0, LineFields, Bounds DEF EditOf, Shown, Room
  <2>5. Painted(l) \in Nat /\ Painted(l) >= l.len /\ Painted(l) >= line.len
    BY <2>4 DEF Painted
  <2>6. screen.cells[r][c] \in Chars
    BY <1>0, BoxFields
  <2>7. i \in 0 .. l.len - 1 => l.chars[i] \in Chars
    <3>1. i \in 0 .. l.len - 1 => i \in Slots
      BY <1>0, LineFields, Bounds DEF Room, Slots
    <3> QED
      BY <1>0, <3>1, LineFields
  <2>8. Cell(r, c) = IF i \notin 0 .. Painted(l) - 1 THEN screen.cells[r][c]
                     ELSE IF i < l.len THEN l.chars[i] ELSE SPACE
    BY <2>1
  <2> HIDE DEF Cell
  <2>9. CASE i < 0
    <3>1. i \notin 0 .. Painted(l) - 1
      BY <2>9
    <3> QED
      BY <2>1, <2>3, <2>6, <2>8, <2>9, <3>1
  <2>10. CASE i >= 0 /\ i < l.len
    <3>1. i \in 0 .. Painted(l) - 1 /\ i \in 0 .. l.len - 1 /\ ~(i < 0)
      BY <2>4, <2>5, <2>10
    <3> QED
      BY <2>1, <2>7, <2>8, <2>10, <3>1
  <2>11. CASE i >= 0 /\ ~(i < l.len)
    <3>1. Cell(r, c) = SPACE
      <4>1. CASE i \in 0 .. Painted(l) - 1
        BY <2>8, <2>11, <4>1
      <4>2. CASE i \notin 0 .. Painted(l) - 1
        <5>1. ~(i < line.len) /\ ~(i < 0)
          BY <2>4, <2>5, <2>11, <4>2
        <5> QED
          BY <2>3, <2>8, <4>2, <5>1
      <4> QED
        BY <4>1, <4>2
    <3>2. ~(i < 0) /\ SPACE \in Chars
      BY <2>11 DEF Chars
    <3> QED
      BY <2>1, <2>11, <3>1, <3>2
  <2> QED
    BY <2>9, <2>10, <2>11
<1>3. cells \in [Rows -> [Cols -> Chars]] /\ \A r \in Rows, c \in Cols : cells[r][c] = Cell(r, c)
  <2> HIDE DEF Cell
  <2>1. \A r \in Rows : [c \in Cols |-> Cell(r, c)] \in [Cols -> Chars]
    BY <1>2
  <2> QED
    BY <2>1
<1>4. row \in Rows /\ col \in 0 .. TERMINAL_COLS
  <2>1. PICK k \in Nat : k = l.prompt_col + l.cursor
    BY <1>0, LineFields, Bounds, Sizes DEF Room
  <2>2. k \div TERMINAL_COLS \in Nat /\ k % TERMINAL_COLS \in 0 .. TERMINAL_COLS - 1
    BY Sizes
  <2>3. RowOf(l, l.cursor) = l.prompt_row + k \div TERMINAL_COLS /\ ColOf(l, l.cursor) = k % TERMINAL_COLS
    BY <2>1 DEF RowOf, ColOf
  <2>4. l.prompt_row \in Rows
    BY <1>0, LineFields
  <2>5. row \in Rows
    BY <2>2, <2>3, <2>4, Sizes DEF Rows
  <2>6. col \in 0 .. TERMINAL_COLS
    BY <2>2, <2>3, Sizes
  <2> QED
    BY <2>5, <2>6
<1> HIDE DEF cells, row, col, visible
<1>5. screen' \in Boxes /\ screen'.cells = cells /\ screen'.cursor_row = row
  BY <1>0, <1>1, <1>3, <1>4 DEF Boxes
<1>6. line' = [l EXCEPT !.drawn_len = l.len]
  BY DEF Redrawn
<1>7. /\ LineOk(line') /\ line'.drawn_len = line'.len /\ line'.len = l.len /\ line'.chars = l.chars
      /\ line'.prompt_row = l.prompt_row /\ line'.prompt_col = l.prompt_col
  BY <1>0, <1>6 DEF LineOk
<1>8. ASSUME NEW r \in Rows, NEW c \in Cols
      PROVE  LET i == IndexAt(line', r, c)
             IN  screen'.cells[r][c] = IF i < 0 THEN above'[r][c]
                                       ELSE IF i < line'.len THEN line'.chars[i] ELSE SPACE
  <2> HIDE DEF Cell
  <2>1. IndexAt(line', r, c) = IndexAt(l, r, c)
    BY <1>7 DEF IndexAt
  <2> QED
    BY <1>2, <1>3, <1>5, <1>7, <2>1
<1>9. ScreenShowsLine'
  <2>1. line'.cursor \in 0 .. line'.len
    BY <1>7, LineFields, Bounds DEF Room
  <2>2. screen'.cursor_row \in Rows
    BY <1>4, <1>5
  <2> QED
    BY <1>8, <2>1, <2>2 DEF ScreenShowsLine, Rows, Cols
<1> QED
  BY <1>5, <1>7, <1>9 DEF Shown

\* From where a tidy box was left on there are blanks.
LEMMA AfterPrompt ==
  ASSUME NEW t, Tidy(t), NEW l, LineOk(l),
         l.prompt_row = t.cursor_row, l.prompt_col = t.cursor_col,
         NEW r \in Rows, NEW c \in Cols
  PROVE  IndexAt(l, r, c) < 0 \/ t.cells[r][c] = SPACE
<1>1. PICK i \in Int : i = IndexAt(l, r, c)
  BY IndexIsInt
<1>2. i = (r - t.cursor_row) * TERMINAL_COLS + c - t.cursor_col
  BY <1>1 DEF IndexAt
<1>3. t.cursor_row \in Rows /\ t.cursor_col \in 0 .. TERMINAL_COLS
  BY BoxFields DEF Tidy
<1>4. CASE ~(i < 0)
  <2>1. r > t.cursor_row \/ (r = t.cursor_row /\ c >= t.cursor_col)
    BY <1>2, <1>3, <1>4, BehindPrompt
  <2> QED
    BY <2>1 DEF Tidy, BlankBelow
<1> QED
  BY <1>1, <1>4

\* A blank screen from the prompt on shows the empty line.
LEMMA PromptShows ==
  ASSUME LineOk(line), NEW tb, Tidy(tb), NEW prompt \in Prompts, Prompted(tb, line, prompt)
  PROVE  LineOk(line') /\ Shown'
<1> DEFINE s == <<"C", ":">> \o prompt \o <<">">>
           t == textbox_puts(tb, s)
<1>1. s \in Seq(Chars)
  <2>1. prompt \in Seq(Chars)
    <3>1. prompt \in Seq(STRING)
      BY ConsoleAssumption
    <3> QED
      BY <3>1 DEF Chars
  <2>2. <<"C", ":">> \in Seq(Chars) /\ <<">">> \in Seq(Chars)
    BY DEF Chars
  <2> QED
    BY <2>1, <2>2
<1>2. Tidy(t)
  BY <1>1, PutsTidy
<1>3. /\ screen' = t /\ above' = t.cells
      /\ line' = [line EXCEPT !.prompt_row = t.cursor_row, !.prompt_col = t.cursor_col,
                              !.len = 0, !.cursor = 0, !.drawn_len = 0]
  BY DEF Prompted
<1> HIDE DEF t, s
<1>4. t \in Boxes /\ t.cursor_row \in Rows /\ t.cursor_col \in 0 .. TERMINAL_COLS
      /\ t.cells \in [Rows -> [Cols -> Chars]]
  BY <1>2, BoxFields DEF Tidy
<1>5. /\ LineOk(line') /\ line'.len = 0 /\ line'.drawn_len = 0 /\ line'.cursor = 0
      /\ line'.prompt_row = t.cursor_row /\ line'.prompt_col = t.cursor_col
  <2> DEFINE l == [line EXCEPT !.prompt_row = t.cursor_row, !.prompt_col = t.cursor_col,
                               !.len = 0, !.cursor = 0, !.drawn_len = 0]
  <2>1. l \in [chars : [Slots -> Chars], len : Room, cursor : Room, drawn_len : Room,
               prompt_row : Rows, prompt_col : 0 .. TERMINAL_COLS]
    BY <1>4, Bounds DEF LineOk
  <2>2. /\ l.len = 0 /\ l.drawn_len = 0 /\ l.cursor = 0
        /\ l.prompt_row = t.cursor_row /\ l.prompt_col = t.cursor_col
    BY DEF LineOk
  <2> HIDE DEF l
  <2>3. LineOk(l)
    BY <2>1, <2>2 DEF LineOk
  <2> QED
    BY <1>3, <2>2, <2>3 DEF l
<1>6. ASSUME NEW r \in Rows, NEW c \in Cols
      PROVE  LET i == IndexAt(line', r, c)
             IN  screen'.cells[r][c] = IF i < 0 THEN above'[r][c]
                                       ELSE IF i < line'.len THEN line'.chars[i] ELSE SPACE
  <2>1. PICK i \in Int : i = IndexAt(line', r, c)
    BY <1>5, IndexIsInt
  <2>2. i < 0 \/ t.cells[r][c] = SPACE
    BY <1>2, <1>5, <2>1, AfterPrompt
  <2>3. i < line'.len => i < 0
    BY <1>5
  <2> QED
    BY <1>3, <2>1, <2>2, <2>3
<1>7. ScreenShowsLine'
  <2>1. line'.cursor \in 0 .. line'.len
    BY <1>5
  <2> QED
    BY <1>3, <1>4, <1>6, <2>1 DEF ScreenShowsLine, Rows, Cols
<1> QED
  BY <1>3, <1>4, <1>5, <1>7 DEF Shown

LEMMA TextIsLine == ASSUME LineOk(line) PROVE Text \in Lines /\ Len(Text) = line.len
<1>1. PICK n \in Nat : n = line.len /\ n <= TERMINAL_MAX_LINE - 1
  BY LineFields, Bounds DEF Room
<1>2. ASSUME NEW i \in 1 .. n PROVE line.chars[i - 1] \in Chars
  <2>1. i - 1 \in Slots
    BY <1>1, Bounds DEF Slots
  <2> QED
    BY <2>1, LineFields
<1>3. Text = [i \in 1 .. n |-> line.chars[i - 1]]
  BY <1>1 DEF Text
<1>4. Text \in Seq(Chars) /\ Len(Text) = n
  BY <1>2, <1>3
<1> QED
  BY <1>1, <1>4 DEF Lines

LEMMA LoadOk ==
  ASSUME NEW l, LineOk(l), NEW s \in Lines
  PROVE  EditOf(terminal_history_load(l, s), l)
<1> DEFINE chars == [i \in Slots |-> IF i < Len(s) THEN s[i + 1] ELSE l.chars[i]]
<1>0. PICK n \in Nat : n = Len(s)
  BY DEF Lines
<1>1. n \in Room
  BY <1>0, Bounds DEF Lines, Room
<1>2. chars \in [Slots -> Chars]
  <2> SUFFICES ASSUME NEW i \in Slots
               PROVE  (IF i < Len(s) THEN s[i + 1] ELSE l.chars[i]) \in Chars
    OBVIOUS
  <2>1. i < n => i + 1 \in 1 .. n
    BY Bounds DEF Slots
  <2>2. i < n => s[i + 1] \in Chars
    BY <1>0, <2>1 DEF Lines
  <2> QED
    BY <1>0, <2>2, LineFields
<1>3. terminal_history_load(l, s) = Edited(l, chars, n, n)
  BY <1>0 DEF terminal_history_load, Edited, LineOk
<1> HIDE DEF chars
<1> QED
  BY <1>1, <1>2, <1>3, EditedOk

LEMMA BrowseKeeps ==
  ASSUME ConsoleInv, NEW pos \in -1 .. history.count - 1, Browse(pos)
  PROVE  ConsoleInv'
<1>1. /\ LineOk(line) /\ entered \in Seq(Lines) /\ HistoryRecalls
      /\ history \in [ring : [Ring -> Seq(Chars)], count : 0 .. TERMINAL_HISTORY_N, head : Ring,
                      pos : -1 .. TERMINAL_HISTORY_N]
  BY DEF ConsoleInv, HistoryOk
<1> DEFINE l == IF pos >= 0 THEN terminal_history_load(line, Recalled(history, pos))
                ELSE [line EXCEPT !.len = 0, !.cursor = 0]
<1>2. /\ history' = [history EXCEPT !.pos = pos] /\ Redrawn(l)
      /\ entered' = entered /\ above' = above
  BY DEF Browse
<1>3. EditOf(l, line)
  <2>1. CASE pos >= 0
    <3>0. PICK n \in Nat : n = Len(entered)
      BY <1>1
    <3>1. pos \in 0 .. history.count - 1 /\ history.count \in 0 .. TERMINAL_HISTORY_N
      BY <1>1, <2>1
    <3>2. n - pos \in 1 .. n
      BY <1>1, <3>0, <3>1, Bounds DEF HistoryRecalls
    <3>3. entered[n - pos] \in Lines
      BY <1>1, <3>0, <3>2
    <3>4. Recalled(history, pos) \in Lines
      BY <1>1, <3>0, <3>1, <3>3 DEF HistoryRecalls
    <3> QED
      BY <1>1, <2>1, <3>4, LoadOk
  <2>2. CASE ~(pos >= 0)
    <3>1. l = Edited(line, line.chars, 0, 0)
      BY <1>1, <2>2 DEF LineOk, Edited
    <3> HIDE DEF l
    <3>2. line.chars \in [Slots -> Chars] /\ 0 \in Room /\ 0 <= 0
      BY <1>1, LineFields, Bounds
    <3> QED
      BY <1>1, <3>1, <3>2, EditedOk
  <2> QED
    BY <2>1, <2>2
<1> HIDE DEF l
<1>4. LineOk(line') /\ Shown'
  BY <1>1, <1>2, <1>3, RedrawShows DEF ConsoleInv
<1>5. HistoryOk'
  <2>1. /\ history' \in [ring : [Ring -> Seq(Chars)], count : 0 .. TERMINAL_HISTORY_N, head : Ring,
                         pos : -1 .. TERMINAL_HISTORY_N]
        /\ history'.ring = history.ring /\ history'.head = history.head
        /\ history'.count = history.count /\ history'.pos = pos
    <3>1. history.count \in 0 .. TERMINAL_HISTORY_N
      BY <1>1
    <3>2. pos \in -1 .. TERMINAL_HISTORY_N
      BY <3>1, Bounds
    <3> QED
      BY <1>1, <1>2, <3>2
  <2>2. \A back : Recalled(history', back) = Recalled(history, back)
    BY <2>1 DEF Recalled
  <2>3. HistoryRecalls'
    BY <1>1, <1>2, <2>1, <2>2 DEF HistoryRecalls
  <2> QED
    BY <1>1, <1>2, <2>1, <2>3 DEF HistoryOk
<1> QED
  BY <1>4, <1>5 DEF ConsoleInv

\* Behind the line, and on a new line, there are blanks.
LEMMA PastLineTidy == ASSUME LineOk(line), Shown PROVE Tidy(PastLine(screen))
<1> DEFINE row == RowOf(line, line.len)
           down == IF row >= TERMINAL_ROWS THEN TERMINAL_ROWS - 1 ELSE row
           col == ColOf(line, line.len)
           tb == [screen EXCEPT !.cursor_row = down, !.cursor_col = col]
<1>0. screen \in Boxes
  BY DEF Shown
<1>1. PastLine(screen) = textbox_newline(tb)
  BY <1>0, BoxFields DEF PastLine, textbox_putc
<1>2. PICK k \in Nat : k = line.prompt_col + line.len
  BY LineFields, Bounds, Sizes DEF Room
<1>3. k \div TERMINAL_COLS \in Nat /\ k % TERMINAL_COLS \in 0 .. TERMINAL_COLS - 1
  BY Sizes
<1>4. row = line.prompt_row + k \div TERMINAL_COLS /\ col = k % TERMINAL_COLS
  BY <1>2 DEF RowOf, ColOf
<1>5. line.prompt_row \in Rows /\ line.prompt_col \in 0 .. k /\ line.len = k - line.prompt_col
  BY <1>2, LineFields, Bounds, Sizes DEF Room
<1> HIDE DEF row, col
<1>6. down \in Rows /\ col \in 0 .. TERMINAL_COLS
  BY <1>3, <1>4, <1>5, Sizes DEF Rows
<1>7. ASSUME NEW r \in Rows, NEW c \in Cols, r > down
      PROVE  screen.cells[r][c] = SPACE
  <2>1. r > line.prompt_row + k \div TERMINAL_COLS
    BY <1>3, <1>4, <1>5, <1>7, Sizes DEF Rows
  <2>2. (r - line.prompt_row) * TERMINAL_COLS + c - line.prompt_col >= k - line.prompt_col
    BY <1>5, <2>1, BelowLine
  <2>3. PICK i \in Int : i = IndexAt(line, r, c)
    BY IndexIsInt
  <2>4. i >= line.len /\ line.len \in Nat
    BY <1>5, <2>2, <2>3, LineFields, Bounds DEF IndexAt, Room
  <2>5. ~(i < 0) /\ ~(i < line.len)
    BY <2>4
  <2> QED
    BY <2>3, <2>5 DEF Shown, ScreenShowsLine, Rows, Cols
<1> HIDE DEF down
<1>8. tb \in Boxes /\ tb.cells = screen.cells /\ tb.cursor_row = down
  BY <1>0, <1>6 DEF Boxes
<1> HIDE DEF tb
<1>9. BlankBelow(tb)
  BY <1>7, <1>8 DEF BlankBelow
<1> QED
  BY <1>1, <1>8, <1>9, NewlineTidy

LEMMA EnterKeeps == ASSUME ConsoleInv, Enter PROVE ConsoleInv'
<1>1. LineOk(line) /\ HistoryOk /\ Shown
  BY DEF ConsoleInv
<1>2. PICK tb \in Executed(PastLine(screen)), prompt \in Prompts : Prompted(tb, line, prompt)
  BY DEF Enter
<1>3. Tidy(tb)
  <2> DEFINE past == PastLine(screen)
  <2>1. Tidy(past)
    BY <1>1, PastLineTidy
  <2> HIDE DEF past
  <2>2. tb = past \/ tb = textbox_clear(past) \/ \E o \in Outputs : tb = textbox_puts(past, o)
    BY <1>2 DEF Executed, past
  <2>3. Tidy(textbox_clear(past))
    BY <2>1, ClearTidy DEF Tidy
  <2>4. ASSUME NEW o \in Outputs PROVE Tidy(textbox_puts(past, o))
    <3>1. o \in Seq(STRING)
      BY ConsoleAssumption
    <3>2. o \in Seq(Chars)
      BY <3>1 DEF Chars
    <3> QED
      BY <2>1, <3>2, PutsTidy
  <2> QED
    BY <2>1, <2>2, <2>3, <2>4
<1>4. LineOk(line') /\ Shown'
  BY <1>1, <1>2, <1>3, PromptShows
<1>5. HistoryOk'
  <2>1. /\ history' = terminal_history_push(history, Text)
        /\ entered' = IF Text = <<>> THEN entered ELSE Append(entered, Text)
    BY DEF Enter
  <2>2. Text \in Lines
    BY <1>1, TextIsLine
  <2> DEFINE s == Text
  <2> HIDE DEF s
  <2>3. CASE Text = <<>>
    <3>1. history' = history /\ entered' = entered
      BY <2>1, <2>3 DEF terminal_history_push
    <3> QED
      BY <1>1, <3>1 DEF HistoryOk, HistoryRecalls
  <2>4. CASE Text # <<>>
    <3>1. entered' = Append(entered, Text)
      BY <2>1, <2>4
    <3>2. entered' \in Seq(Lines)
      BY <1>1, <2>2, <3>1 DEF HistoryOk
    <3>3. /\ history' \in [ring : [Ring -> Seq(Chars)], count : 0 .. TERMINAL_HISTORY_N, head : Ring,
                           pos : -1 .. TERMINAL_HISTORY_N]
          /\ history'.count = IF Len(entered') < TERMINAL_HISTORY_N THEN Len(entered') ELSE TERMINAL_HISTORY_N
          /\ history'.pos \in -1 .. history'.count - 1
          /\ \A back \in 0 .. history'.count - 1 :
               Recalled(history', back) = entered'[Len(entered') - back]
      BY <1>1, <2>1, <2>2, <2>4, <3>1, PushRecalls
    <3> QED
      BY <3>2, <3>3 DEF HistoryOk, HistoryRecalls
  <2> QED
    BY <2>3, <2>4
<1> QED
  BY <1>4, <1>5 DEF ConsoleInv

LEMMA ConsoleInitOk == ASSUME ConsoleInit PROVE ConsoleInv
<1> DEFINE tb == textbox_puts(textbox_init(TERMINAL_COLS, TERMINAL_ROWS), Banner \o <<NL>>)
           t == textbox_puts(tb, <<"C", ":", ">">>)
<1>1. Tidy(t)
  <2>1. Tidy(tb)
    <3>1. Banner \in Seq(Chars) /\ <<NL>> \in Seq(Chars)
      BY ConsoleAssumption DEF Chars, NL
    <3>2. Banner \o <<NL>> \in Seq(Chars)
      BY <3>1, ConcatProperties
    <3> QED
      BY <3>2, InitTidy, PutsTidy
  <2>2. <<"C", ":", ">">> \in Seq(Chars)
    BY DEF Chars
  <2> HIDE DEF tb
  <2> QED
    BY <2>1, <2>2, PutsTidy
<1>2. /\ screen = t /\ above = t.cells
      /\ line = [chars |-> [i \in Slots |-> "?"], len |-> 0, cursor |-> 0, drawn_len |-> 0,
                 prompt_row |-> t.cursor_row, prompt_col |-> t.cursor_col]
      /\ history = [ring |-> [i \in 0 .. TERMINAL_HISTORY_N - 1 |-> <<"?">>],
                    count |-> 0, head |-> 0, pos |-> -1]
      /\ entered = <<>>
  BY DEF ConsoleInit
<1> HIDE DEF t, tb
<1>3. t \in Boxes /\ t.cursor_row \in Rows /\ t.cursor_col \in 0 .. TERMINAL_COLS
      /\ t.cells \in [Rows -> [Cols -> Chars]]
  BY <1>1, BoxFields DEF Tidy
<1>4. /\ LineOk(line) /\ line.len = 0 /\ line.drawn_len = 0 /\ line.cursor = 0
      /\ line.prompt_row = t.cursor_row /\ line.prompt_col = t.cursor_col
  <2> DEFINE chars == [i \in Slots |-> "?"]
  <2>1. chars \in [Slots -> Chars]
    BY DEF Chars
  <2> HIDE DEF chars
  <2>2. line = [chars |-> chars, len |-> 0, cursor |-> 0, drawn_len |-> 0,
                prompt_row |-> t.cursor_row, prompt_col |-> t.cursor_col]
    BY <1>2 DEF chars
  <2> QED
    BY <1>3, <2>1, <2>2, Bounds DEF LineOk
<1>5. Shown
  <2>1. ASSUME NEW r \in Rows, NEW c \in Cols
        PROVE  LET i == IndexAt(line, r, c)
               IN  screen.cells[r][c] = IF i < 0 THEN above[r][c]
                                        ELSE IF i < line.len THEN line.chars[i] ELSE SPACE
    <3>1. PICK i \in Int : i = IndexAt(line, r, c)
      BY <1>4, IndexIsInt
    <3>2. i < 0 \/ t.cells[r][c] = SPACE
      BY <1>1, <1>4, <3>1, AfterPrompt
    <3>3. i < line.len => i < 0
      BY <1>4
    <3>4. screen.cells = t.cells /\ above = t.cells
      BY <1>2
    <3> QED
      BY <3>1, <3>2, <3>3, <3>4
  <2>2. line.cursor \in 0 .. line.len /\ screen.cursor_row \in Rows
    BY <1>2, <1>3, <1>4
  <2>3. ScreenShowsLine
    BY <2>1, <2>2 DEF ScreenShowsLine, Rows, Cols
  <2> QED
    BY <1>2, <1>3, <1>4, <2>3 DEF Shown
<1>6. HistoryOk
  <2> DEFINE ring == [i \in 0 .. TERMINAL_HISTORY_N - 1 |-> <<"?">>]
  <2>1. ring \in [Ring -> Seq(Chars)]
    <3>1. <<"?">> \in Seq(Chars)
      BY DEF Chars
    <3> QED
      BY <3>1 DEF Ring
  <2> HIDE DEF ring
  <2>2. history = [ring |-> ring, count |-> 0, head |-> 0, pos |-> -1]
    BY <1>2 DEF ring
  <2>3. 0 \in 0 .. TERMINAL_HISTORY_N /\ -1 \in -1 .. TERMINAL_HISTORY_N
    BY Bounds
  <2>4. history \in [ring : [Ring -> Seq(Chars)], count : 0 .. TERMINAL_HISTORY_N, head : Ring,
                     pos : -1 .. TERMINAL_HISTORY_N]
    BY <2>1, <2>2, <2>3, Bounds
  <2>5. history.count = 0 /\ history.pos = -1 /\ entered = <<>>
    BY <1>2, <2>2
  <2>6. Len(entered) = 0 /\ entered \in Seq(Lines)
    BY <2>5
  <2>7. HistoryRecalls
    BY <2>5, <2>6, Bounds DEF HistoryRecalls
  <2> QED
    BY <2>4, <2>6, <2>7 DEF HistoryOk
<1> QED
  BY <1>4, <1>5, <1>6 DEF ConsoleInv

LEMMA EditKeyKeeps ==
  ASSUME ConsoleInv, NEW key \in EditKeys, EditKey(key)
  PROVE  ConsoleInv'
<1>1. EditOf(terminal_input_key(line, key), line)
  BY KeyOk DEF ConsoleInv, EditKey
<1>2. LineOk(line') /\ Shown'
  BY <1>1, RedrawShows DEF ConsoleInv, EditKey
<1>3. HistoryOk'
  BY DEF ConsoleInv, EditKey, HistoryOk, HistoryRecalls
<1> QED
  BY <1>2, <1>3 DEF ConsoleInv

LEMMA ConsoleKeeps == ASSUME ConsoleInv, [ConsoleNext]_consoleVars PROVE ConsoleInv'
<1>0. history.pos \in -1 .. history.count - 1 /\ history.count \in 0 .. TERMINAL_HISTORY_N
  BY DEF ConsoleInv, HistoryOk, HistoryRecalls
<1>1. CASE \E key \in EditKeys : EditKey(key)
  BY <1>1, EditKeyKeeps
<1>2. CASE KeyUp
  <2>1. history.pos + 1 \in -1 .. history.count - 1
    BY <1>0, <1>2, Bounds DEF KeyUp
  <2> QED
    BY <1>2, <2>1, BrowseKeeps DEF KeyUp
<1>3. CASE KeyDown
  <2>1. history.pos - 1 \in -1 .. history.count - 1
    BY <1>0, <1>3, Bounds DEF KeyDown
  <2> QED
    BY <1>3, <2>1, BrowseKeeps DEF KeyDown
<1>4. CASE Enter
  BY <1>4, EnterKeeps
<1>5. CASE UNCHANGED consoleVars
  <2>1. UNCHANGED <<line, screen, history, entered, above>>
    BY <1>5 DEF consoleVars
  <2> QED
    BY <2>1 DEF ConsoleInv, HistoryOk, HistoryRecalls, Shown, ScreenShowsLine
<1> QED
  BY <1>1, <1>2, <1>3, <1>4, <1>5 DEF ConsoleNext

LEMMA TerminalInvariant == Spec => []ConsoleInv
<1>1. Init => ConsoleInv
  BY ConsoleInitOk DEF Init
<1>2. ConsoleInv /\ [Next]_textVars => ConsoleInv'
  <2> SUFFICES ASSUME ConsoleInv, [Next]_textVars PROVE ConsoleInv'
    OBVIOUS
  <2>1. [ConsoleNext]_consoleVars
    BY DEF Next, textVars, consoleVars
  <2> QED
    BY <2>1, ConsoleKeeps
<1> QED
  BY <1>1, <1>2, PTL DEF Spec

(* What is on the terminal's screen: the scrollback as the prompt left it, *)
(* the line being edited as far as it fits, and blanks, whatever the keys  *)
(* and however the line wraps and the screen scrolls.                      *)
THEOREM TerminalShowsItsLine == Spec => []ScreenShowsLine
<1>1. ConsoleInv => ScreenShowsLine
  BY DEF ConsoleInv, Shown
<1> QED
  BY <1>1, TerminalInvariant, PTL

(* The arrows recall the lines entered, latest first, for a ring and for   *)
(* lines of any size, also after the ring has wrapped.                     *)
THEOREM ArrowsRecallLines == Spec => []HistoryRecalls
<1>1. ConsoleInv => HistoryRecalls
  BY DEF ConsoleInv, HistoryOk
<1> QED
  BY <1>1, TerminalInvariant, PTL

-----------------------------------------------------------------------------
(* Least and greatest.                                                     *)

LEMMA MinIs ==
  ASSUME NEW I, I \subseteq Nat, I # {}
  PROVE  Min(I) \in I /\ \A i \in I : Min(I) <= i
<1>1. PICK m \in I : \A i \in I : m <= i
  BY SomeLeast
<1> QED
  BY <1>1 DEF Min

LEMMA MaxIs ==
  ASSUME NEW n \in Nat, NEW I, I \subseteq 0 .. n, I # {}
  PROVE  Max(I) \in I /\ \A i \in I : Max(I) >= i
<1> DEFINE J == {j \in 0 .. n : n - j \in I}
<1>1. J \subseteq Nat /\ J # {}
  <2>1. PICK i \in I : TRUE
    OBVIOUS
  <2>2. i \in 0 .. n
    BY <2>1
  <2>3. n - i \in 0 .. n /\ n - (n - i) = i
    BY <2>2
  <2>4. n - i \in J
    BY <2>1, <2>3
  <2> QED
    BY <2>4
<1>2. PICK k \in J : \A j \in J : k <= j
  BY <1>1, SomeLeast
<1>3. n - k \in I /\ k \in 0 .. n
  BY <1>2
<1>4. ASSUME NEW i \in I PROVE n - k >= i
  <2>1. i \in 0 .. n
    OBVIOUS
  <2>2. n - i \in 0 .. n /\ n - (n - i) = i
    BY <2>1
  <2>3. n - i \in J
    BY <2>2
  <2>4. k <= n - i
    BY <1>2, <2>3
  <2> QED
    BY <1>3, <2>1, <2>4
<1> HIDE DEF J
<1>5. \E m \in I : \A i \in I : m >= i
  BY <1>3, <1>4
<1> QED
  BY <1>5 DEF Max

LEMMA LesserIs ==
  ASSUME NEW a \in Nat, NEW b \in Nat
  PROVE  Min({a, b}) = IF a <= b THEN a ELSE b
<1>1. {a, b} \subseteq Nat /\ {a, b} # {}
  OBVIOUS
<1>2. Min({a, b}) \in {a, b} /\ Min({a, b}) <= a /\ Min({a, b}) <= b
  BY <1>1, MinIs
<1> QED
  BY <1>2

-----------------------------------------------------------------------------
(* Rows and line starts of a flat text.                                    *)

Row(b, n) == Cardinality(Breaks(b, n))

LEMMA BreaksGrow ==
  ASSUME NEW b, NEW n \in Nat
  PROVE  /\ Breaks(b, 0) = {}
         /\ Breaks(b, n + 1) = IF b.data[n] = NL THEN Breaks(b, n) \cup {n} ELSE Breaks(b, n)
         /\ n \notin Breaks(b, n) /\ IsFiniteSet(Breaks(b, n))
<1>1. 0 .. 0 - 1 = {} /\ 0 .. (n + 1) - 1 = (0 .. n - 1) \cup {n} /\ n \notin 0 .. n - 1
  OBVIOUS
<1>2. IsFiniteSet(Breaks(b, n))
  <2>1. IsFiniteSet(0 .. n - 1)
    BY FS_Interval
  <2>2. Breaks(b, n) \in SUBSET (0 .. n - 1)
    BY DEF Breaks
  <2> QED
    BY <2>1, <2>2, FS_Subset
<1> QED
  BY <1>1, <1>2 DEF Breaks

LEMMA RowStep ==
  ASSUME NEW b, NEW n \in Nat
  PROVE  /\ Row(b, n) \in Nat /\ Row(b, 0) = 0
         /\ Row(b, n + 1) = IF b.data[n] = NL THEN Row(b, n) + 1 ELSE Row(b, n)
<1>1. Row(b, n) \in Nat /\ Row(b, 0) = 0
  BY BreaksGrow, FS_CardinalityType, FS_EmptySet DEF Row
<1>2. Row(b, n + 1) = IF b.data[n] = NL THEN Row(b, n) + 1 ELSE Row(b, n)
  <2>1. IsFiniteSet(Breaks(b, n)) /\ n \notin Breaks(b, n)
    BY BreaksGrow
  <2>2. Cardinality(Breaks(b, n) \cup {n}) = Cardinality(Breaks(b, n)) + 1
    BY <2>1, FS_AddElement
  <2>3. Breaks(b, n + 1) = IF b.data[n] = NL THEN Breaks(b, n) \cup {n} ELSE Breaks(b, n)
    BY BreaksGrow
  <2> QED
    BY <2>2, <2>3 DEF Row
<1> QED
  BY <1>1, <1>2

LEMMA RowGrows ==
  ASSUME NEW b, NEW n \in Nat, NEW j \in 0 .. n
  PROVE  Row(b, j) <= Row(b, n)
<1>1. Breaks(b, j) \in SUBSET Breaks(b, n)
  BY DEF Breaks
<1> QED
  BY <1>1, BreaksGrow, FS_Subset DEF Row

\* What makes s the start of the line that offset n is on.
Starts(b, n, s) ==
  /\ s \in 0 .. n /\ (s = 0 \/ b.data[s - 1] = NL)
  /\ \A i \in s .. n - 1 : b.data[i] # NL

LEMMA StartIs ==
  ASSUME NEW b, NEW n \in Nat
  PROVE  Starts(b, n, line_start(b, n))
<1> DEFINE I == {i \in 0 .. n : i = 0 \/ b.data[i - 1] = NL}
           s == Max(I)
<1>1. I \subseteq 0 .. n /\ 0 \in I
  OBVIOUS
<1>2. s \in I /\ \A i \in I : s >= i
  <2> HIDE DEF I
  <2> QED
    BY <1>1, MaxIs
<1>3. s = line_start(b, n)
  BY DEF line_start
<1> HIDE DEF s
<1>4. ASSUME NEW i \in s .. n - 1 PROVE b.data[i] # NL
  <2>1. s \in 0 .. n
    BY <1>2
  <2>2. i + 1 \in 0 .. n /\ (i + 1) - 1 = i /\ i + 1 # 0 /\ ~(s >= i + 1)
    BY <2>1
  <2>3. b.data[i] = NL => i + 1 \in I
    BY <2>2
  <2> HIDE DEF I
  <2> QED
    BY <1>2, <2>2, <2>3
<1> QED
  BY <1>2, <1>3, <1>4 DEF Starts

LEMMA OneStart ==
  ASSUME NEW b, NEW n \in Nat, NEW s, NEW t, Starts(b, n, s), Starts(b, n, t)
  PROVE  s = t
<1>1. s \in 0 .. n /\ t \in 0 .. n
  BY DEF Starts
<1>2. ASSUME NEW u \in 0 .. n, NEW v \in 0 .. n, Starts(b, n, u), Starts(b, n, v), u < v
      PROVE  FALSE
  <2>1. v - 1 \in u .. n - 1 /\ v # 0
    BY <1>2
  <2> QED
    BY <1>2, <2>1 DEF Starts
<1>3. s < t \/ s = t \/ t < s
  BY <1>1
<1> QED
  BY <1>1, <1>2, <1>3

LEMMA StartStep ==
  ASSUME NEW b, NEW n \in Nat
  PROVE  /\ line_start(b, n) \in 0 .. n /\ line_start(b, 0) = 0
         /\ line_start(b, n + 1) = IF b.data[n] = NL THEN n + 1 ELSE line_start(b, n)
<1>1. line_start(b, n) \in 0 .. n /\ line_start(b, 0) \in 0 .. 0
  BY StartIs DEF Starts
<1>2. CASE b.data[n] = NL
  <2>1. Starts(b, n + 1, n + 1)
    BY <1>2 DEF Starts
  <2>2. n + 1 \in Nat
    OBVIOUS
  <2> QED
    BY <1>1, <1>2, <2>1, <2>2, StartIs, OneStart
<1>3. CASE b.data[n] # NL
  <2>1. Starts(b, n, line_start(b, n))
    BY StartIs
  <2>2. Starts(b, n + 1, line_start(b, n))
    BY <1>3, <2>1 DEF Starts
  <2>3. n + 1 \in Nat
    OBVIOUS
  <2> QED
    BY <1>1, <1>3, <2>2, <2>3, StartIs, OneStart
<1> QED
  BY <1>2, <1>3

-----------------------------------------------------------------------------
(* The lines of a text, a character at a time.                             *)

More(ls, c) == IF c = NL THEN Append(ls, <<>>) ELSE [ls EXCEPT ![Len(ls)] = Append(@, c)]

\* The lines of each of the first n characters of text.
Lists(text, n, u) ==
  u = [j \in 0 .. n |-> IF j = 0 THEN << <<>> >> ELSE More(u[j - 1], text[j])]

LEMMA MoreLists ==
  ASSUME NEW text, NEW n \in Nat, NEW q, Lists(text, n, q)
  PROVE  \E u : Lists(text, n + 1, u)
<1> DEFINE u == [j \in 0 .. n + 1 |-> IF j <= n THEN q[j] ELSE More(q[n], text[n + 1])]
<1>1. \A j \in 0 .. n : q[j] = IF j = 0 THEN << <<>> >> ELSE More(q[j - 1], text[j])
  BY DEF Lists
<1>2. \A j \in 0 .. n : u[j] = q[j]
  <2>1. \A j \in 0 .. n : j \in 0 .. n + 1 /\ j <= n
    OBVIOUS
  <2> QED
    BY <2>1
<1>3. ASSUME NEW j \in 0 .. n + 1
      PROVE  (IF j <= n THEN q[j] ELSE More(q[n], text[n + 1]))
               = IF j = 0 THEN << <<>> >> ELSE More(u[j - 1], text[j])
  <2> HIDE DEF u
  <2>1. CASE j = 0
    <3>1. 0 \in 0 .. n /\ 0 <= n
      OBVIOUS
    <3> QED
      BY <1>1, <2>1, <3>1
  <2>2. CASE j # 0 /\ j <= n
    <3>1. j \in 0 .. n /\ j - 1 \in 0 .. n
      BY <2>2
    <3> QED
      BY <1>1, <1>2, <2>2, <3>1
  <2>3. CASE ~(j <= n)
    <3>1. j = n + 1 /\ j - 1 = n /\ n \in 0 .. n /\ j # 0
      BY <2>3
    <3> QED
      BY <1>2, <2>3, <3>1
  <2> QED
    BY <2>1, <2>2, <2>3
<1>4. u = [j \in 0 .. n + 1 |-> IF j = 0 THEN << <<>> >> ELSE More(u[j - 1], text[j])]
  BY <1>3
<1> HIDE DEF u
<1> QED
  BY <1>4 DEF Lists

LEMMA ListsExist == ASSUME NEW text, NEW n \in Nat PROVE \E u : Lists(text, n, u)
<1> DEFINE I == {j \in Nat : ~\E u : Lists(text, j, u)}
<1> SUFFICES ASSUME I # {} PROVE FALSE
  OBVIOUS
<1>1. PICK m \in I : \A i \in I : m <= i
  BY SomeLeast
<1>2. m \in Nat /\ ~\E u : Lists(text, m, u)
  OBVIOUS
<1>3. CASE m = 0
  <2> DEFINE u == [j \in 0 .. 0 |-> << <<>> >>]
  <2>1. \A j \in 0 .. 0 : j = 0
    OBVIOUS
  <2>2. Lists(text, 0, u)
    BY <2>1 DEF Lists
  <2> QED
    BY <1>2, <1>3, <2>2
<1>4. CASE m # 0
  <2>1. m - 1 \in Nat /\ (m - 1) + 1 = m /\ ~(m <= m - 1)
    BY <1>2, <1>4
  <2>2. PICK u : Lists(text, m - 1, u)
    BY <1>1, <2>1
  <2> HIDE DEF I
  <2>3. \E v : Lists(text, (m - 1) + 1, v)
    BY <2>1, <2>2, MoreLists
  <2> QED
    BY <1>2, <2>1, <2>3
<1> QED
  BY <1>3, <1>4

\* Character i of the text is the one at column c of row r.
Falls(b, i, r, c) == b.data[i] # NL /\ Row(b, i) = r /\ i - line_start(b, i) = c

\* ls is the lines of the first k characters.
Spells(b, k, ls) ==
  /\ ls \in Seq(Seq(Chars)) /\ Len(ls) = Row(b, k) + 1
  /\ Len(ls[Row(b, k) + 1]) = k - line_start(b, k)
  /\ \A r, c \in Nat : r <= Row(b, k) /\ c < Len(ls[r + 1])
                         <=> \E i \in 0 .. k - 1 : Falls(b, i, r, c)
  /\ \A r, c \in Nat, i \in 0 .. k - 1 : Falls(b, i, r, c) => ls[r + 1][c + 1] = b.data[i]

LEMMA SpellsNone == ASSUME NEW b PROVE Spells(b, 0, << <<>> >>)
<1> DEFINE ls == << <<>> >>
<1>1. Row(b, 0) = 0 /\ line_start(b, 0) = 0 /\ 0 .. 0 - 1 = {}
  BY RowStep, StartStep
<1>2. ls \in Seq(Seq(Chars)) /\ Len(ls) = 1 /\ ls[1] = <<>> /\ Len(ls[1]) = 0
  OBVIOUS
<1> HIDE DEF ls
<1>3. \A r, c \in Nat : ~(r <= 0 /\ c < Len(ls[r + 1]))
  <2> SUFFICES ASSUME NEW r \in Nat, NEW c \in Nat, r <= 0, c < Len(ls[r + 1]) PROVE FALSE
    OBVIOUS
  <2>1. r = 0
    OBVIOUS
  <2>2. ls[r + 1] = ls[1]
    BY <2>1
  <2> QED
    BY <1>2, <2>2
<1>4. Spells(b, 0, ls)
  BY <1>1, <1>2, <1>3 DEF Spells
<1> QED
  BY <1>4 DEF ls

LEMMA SpellsBreak ==
  ASSUME NEW b, NEW k \in Nat, NEW ls, Spells(b, k, ls), b.data[k] = NL
  PROVE  Spells(b, k + 1, Append(ls, <<>>))
<1>1. PICK n \in Nat : n = Row(b, k)
  BY RowStep
<1>2. Row(b, k + 1) = n + 1 /\ line_start(b, k + 1) = k + 1
  BY <1>1, RowStep, StartStep
<1>3. ls \in Seq(Seq(Chars)) /\ Len(ls) = n + 1
  BY <1>1 DEF Spells
<1> DEFINE ms == Append(ls, <<>>)
<1>4. /\ ms \in Seq(Seq(Chars)) /\ Len(ms) = n + 2 /\ ms[n + 2] = <<>>
      /\ \A i \in 1 .. n + 1 : ms[i] = ls[i]
  <2>1. <<>> \in Seq(Chars) /\ (n + 1) + 1 = n + 2
    OBVIOUS
  <2> QED
    BY <1>3, <2>1
<1> HIDE DEF ms
<1>5. \A r, c \in Nat : (\E i \in 0 .. (k + 1) - 1 : Falls(b, i, r, c))
                          <=> \E i \in 0 .. k - 1 : Falls(b, i, r, c)
  <2>1. 0 .. (k + 1) - 1 = (0 .. k - 1) \cup {k}
    OBVIOUS
  <2>2. \A r, c : ~Falls(b, k, r, c)
    BY DEF Falls
  <2> QED
    BY <2>1, <2>2
<1>6. ASSUME NEW r \in Nat, NEW c \in Nat
      PROVE  r <= n + 1 /\ c < Len(ms[r + 1]) <=> \E i \in 0 .. k - 1 : Falls(b, i, r, c)
  <2>1. CASE r <= n
    <3>1. r + 1 \in 1 .. n + 1 /\ r <= n + 1
      BY <2>1
    <3> QED
      BY <1>1, <1>4, <2>1, <3>1 DEF Spells
  <2>2. CASE ~(r <= n)
    <3>1. ~(r <= n + 1 /\ c < Len(ms[r + 1]))
      <4>1. r <= n + 1 => r + 1 = n + 2
        BY <2>2
      <4>2. r <= n + 1 => Len(ms[r + 1]) = 0
        BY <1>4, <4>1
      <4> QED
        BY <4>2
    <3>2. ~\E i \in 0 .. k - 1 : Falls(b, i, r, c)
      BY <1>1, <2>2 DEF Spells
    <3> QED
      BY <3>1, <3>2
  <2> QED
    BY <2>1, <2>2
<1>7. ASSUME NEW r \in Nat, NEW c \in Nat, NEW i \in 0 .. k - 1, Falls(b, i, r, c)
      PROVE  ms[r + 1][c + 1] = b.data[i]
  <2>1. r <= n
    BY <1>1, <1>7 DEF Spells
  <2>2. r + 1 \in 1 .. n + 1
    BY <2>1
  <2>3. ls[r + 1][c + 1] = b.data[i]
    BY <1>7 DEF Spells
  <2> QED
    BY <1>4, <2>2, <2>3
<1>8. ASSUME NEW r \in Nat, NEW c \in Nat, NEW i \in 0 .. (k + 1) - 1, Falls(b, i, r, c)
      PROVE  ms[r + 1][c + 1] = b.data[i]
  <2>1. i # k
    BY <1>8 DEF Falls
  <2>2. i \in 0 .. k - 1
    BY <2>1
  <2> QED
    BY <1>7, <1>8, <2>2
<1>9. Len(ms[n + 2]) = (k + 1) - line_start(b, k + 1) /\ (n + 1) + 1 = n + 2
  BY <1>2, <1>4
<1>10. Spells(b, k + 1, ms)
  BY <1>2, <1>4, <1>5, <1>6, <1>8, <1>9 DEF Spells
<1> QED
  BY <1>10 DEF ms

LEMMA SpellsChar ==
  ASSUME NEW b, NEW k \in Nat, NEW ls, Spells(b, k, ls), b.data[k] \in Chars, b.data[k] # NL
  PROVE  Spells(b, k + 1, [ls EXCEPT ![Len(ls)] = Append(@, b.data[k])])
<1>1. PICK n \in Nat : n = Row(b, k)
  BY RowStep
<1>2. PICK m \in Nat : m = k - line_start(b, k)
  BY StartStep
<1>3. Row(b, k + 1) = n /\ line_start(b, k + 1) = line_start(b, k)
      /\ (k + 1) - line_start(b, k + 1) = m + 1
  BY <1>1, <1>2, RowStep, StartStep
<1>4. ls \in Seq(Seq(Chars)) /\ Len(ls) = n + 1 /\ Len(ls[n + 1]) = m
  BY <1>1, <1>2 DEF Spells
<1> DEFINE last == Append(ls[n + 1], b.data[k])
           ms == [ls EXCEPT ![n + 1] = last]
<1>5. ls[n + 1] \in Seq(Chars)
  BY <1>4, ElementOfSeq
<1>6. last \in Seq(Chars) /\ Len(last) = m + 1 /\ last[m + 1] = b.data[k]
      /\ \A i \in 1 .. m : last[i] = ls[n + 1][i]
  BY <1>4, <1>5
<1>7. [ls EXCEPT ![Len(ls)] = Append(@, b.data[k])] = ms
  BY <1>4
<1> HIDE DEF last
<1>8. /\ ms \in Seq(Seq(Chars)) /\ Len(ms) = n + 1
      /\ \A i \in 1 .. n + 1 : ms[i] = IF i = n + 1 THEN last ELSE ls[i]
  <2>1. n + 1 \in 1 .. Len(ls)
    BY <1>4
  <2> QED
    BY <1>4, <1>6, <2>1, ExceptSeq
<1> HIDE DEF ms
<1>9. \A r, c \in Nat : Falls(b, k, r, c) <=> r = n /\ c = m
  BY <1>1, <1>2 DEF Falls
<1>10. 0 .. (k + 1) - 1 = (0 .. k - 1) \cup {k}
  OBVIOUS
<1>11. ASSUME NEW r \in Nat, NEW c \in Nat
       PROVE  r <= n /\ c < Len(ms[r + 1]) <=> \E i \in 0 .. (k + 1) - 1 : Falls(b, i, r, c)
  <2>1. r <= n /\ c < Len(ls[r + 1]) <=> \E i \in 0 .. k - 1 : Falls(b, i, r, c)
    BY <1>1 DEF Spells
  <2>2. r <= n /\ c < Len(ms[r + 1]) <=> (r <= n /\ c < Len(ls[r + 1])) \/ (r = n /\ c = m)
    <3>1. CASE r = n
      <4>1. Len(ms[r + 1]) = m + 1 /\ Len(ls[r + 1]) = m
        BY <1>4, <1>6, <1>8, <3>1
      <4> QED
        BY <3>1, <4>1
    <3>2. CASE r < n
      <4>1. r + 1 \in 1 .. n + 1 /\ r + 1 # n + 1
        BY <3>2
      <4>2. ms[r + 1] = ls[r + 1]
        BY <1>8, <4>1
      <4> QED
        BY <3>2, <4>2
    <3>3. CASE ~(r <= n)
      BY <3>3
    <3> QED
      BY <3>1, <3>2, <3>3
  <2>3. (\E i \in 0 .. (k + 1) - 1 : Falls(b, i, r, c))
          <=> (\E i \in 0 .. k - 1 : Falls(b, i, r, c)) \/ (r = n /\ c = m)
    BY <1>9, <1>10
  <2> QED
    BY <2>1, <2>2, <2>3
<1>12. ASSUME NEW r \in Nat, NEW c \in Nat, NEW i \in 0 .. (k + 1) - 1, Falls(b, i, r, c)
       PROVE  ms[r + 1][c + 1] = b.data[i]
  <2>1. CASE i = k
    <3>1. r = n /\ c = m
      BY <1>9, <1>12, <2>1
    <3>2. n + 1 \in 1 .. n + 1
      OBVIOUS
    <3> QED
      BY <1>6, <1>8, <2>1, <3>1, <3>2
  <2>2. CASE i \in 0 .. k - 1
    <3>1. r <= n /\ c < Len(ls[r + 1]) /\ ls[r + 1][c + 1] = b.data[i]
      BY <1>1, <1>12, <2>2 DEF Spells
    <3>2. r + 1 \in 1 .. n + 1
      BY <3>1
    <3>3. CASE r # n
      <4>1. r + 1 # n + 1
        BY <1>1, <3>3
      <4>2. ms[r + 1] = ls[r + 1]
        BY <1>8, <3>2, <4>1
      <4> QED
        BY <3>1, <4>2
    <3>4. CASE r = n
      <4>1. c + 1 \in 1 .. m
        BY <1>4, <3>1, <3>4
      <4>2. last[c + 1] = ls[n + 1][c + 1]
        BY <1>6, <4>1
      <4> QED
        BY <1>8, <3>1, <3>2, <3>4, <4>2
    <3> QED
      BY <3>3, <3>4
  <2> QED
    BY <1>10, <2>1, <2>2
<1>13. Len(ms[n + 1]) = (k + 1) - line_start(b, k + 1)
  <2>1. n + 1 \in 1 .. n + 1
    OBVIOUS
  <2> QED
    BY <1>3, <1>6, <1>8, <2>1
<1>14. Spells(b, k + 1, ms)
  BY <1>3, <1>8, <1>11, <1>12, <1>13 DEF Spells
<1> QED
  BY <1>7, <1>14

\* A flat text of n characters.
Flat(b, n) == [i \in 1 .. n |-> b.data[i - 1]]

LEMMA LinesSpell ==
  ASSUME NEW b, NEW n \in Nat, \A i \in 0 .. n - 1 : b.data[i] \in Chars
  PROVE  Spells(b, n, LinesOf(Flat(b, n)))
<1>1. Flat(b, n) \in Seq(Chars) /\ Len(Flat(b, n)) = n /\ \A i \in 1 .. n : Flat(b, n)[i] = b.data[i - 1]
  <2>1. \A i \in 1 .. n : i - 1 \in 0 .. n - 1
    OBVIOUS
  <2> QED
    BY <2>1 DEF Flat
<1> DEFINE u == CHOOSE v : Lists(Flat(b, n), n, v)
<1>2. LinesOf(Flat(b, n)) = u[n]
  BY <1>1 DEF LinesOf, Lists, More
<1>3. Lists(Flat(b, n), n, u)
  BY ListsExist
<1> HIDE DEF u
<1>4. \A j \in 0 .. n : u[j] = IF j = 0 THEN << <<>> >> ELSE More(u[j - 1], Flat(b, n)[j])
  BY <1>3 DEF Lists
<1> DEFINE I == {j \in 0 .. n : ~Spells(b, j, u[j])}
<1>5. I = {}
  <2> SUFFICES ASSUME I # {} PROVE FALSE
    OBVIOUS
  <2>0. I \subseteq Nat
    OBVIOUS
  <2>1. PICK m \in I : \A i \in I : m <= i
    BY <2>0, SomeLeast
  <2>2. m \in 0 .. n /\ ~Spells(b, m, u[m])
    OBVIOUS
  <2>3. m # 0
    BY <1>4, <2>2, SpellsNone
  <2>4. PICK k \in 0 .. n - 1 : k = m - 1
    BY <2>2, <2>3
  <2>5. k + 1 = m /\ k \in 0 .. n /\ ~(m <= k) /\ m \in 1 .. n
    BY <2>2, <2>4
  <2>6. Spells(b, k, u[k])
    BY <2>1, <2>5
  <2> HIDE DEF I
  <2>7. u[m] = More(u[k], b.data[k])
    BY <1>1, <1>4, <2>2, <2>3, <2>4, <2>5
  <2>8. Spells(b, k + 1, More(u[k], b.data[k]))
    <3>1. CASE b.data[k] = NL
      BY <2>4, <2>6, <3>1, SpellsBreak DEF More
    <3>2. CASE b.data[k] # NL
      <4> DEFINE ls == u[k]
                 ms == [ls EXCEPT ![Len(ls)] = Append(@, b.data[k])]
      <4>1. More(ls, b.data[k]) = ms
        BY <3>2 DEF More
      <4>2. b.data[k] \in Chars /\ k \in Nat
        BY <2>4
      <4> HIDE DEF ls
      <4>3. Spells(b, k, ls)
        BY <2>6 DEF ls
      <4>4. Spells(b, k + 1, ms)
        BY <3>2, <4>2, <4>3, SpellsChar
      <4> HIDE DEF ms
      <4> QED
        BY <4>1, <4>4 DEF ls
    <3> QED
      BY <3>1, <3>2
  <2> QED
    BY <2>2, <2>5, <2>7, <2>8
<1>6. Spells(b, n, u[n])
  BY <1>5
<1> QED
  BY <1>2, <1>6

-----------------------------------------------------------------------------
(* The buffer: every key keeps the cursor in the text.                     *)

Buffers == [data : [Offsets -> Chars], len : 0 .. EDITBUF_CAPACITY, cursor : 0 .. EDITBUF_CAPACITY,
            goal_col : Nat \cup {-1}, top_line : Nat, dirty : BOOLEAN]

BufferOk(b) == b \in Buffers /\ b.cursor <= b.len

LEMMA BufferSizes == EDITBUF_CAPACITY \in Nat /\ EDITBUF_CAPACITY > 0
                   /\ TE_COLS \in Nat /\ TE_COLS > 0 /\ TE_ROWS \in Nat /\ TE_ROWS > 0
BY EditBufferAssumption

LEMMA BufferFields ==
  ASSUME NEW b, BufferOk(b)
  PROVE  /\ b.data \in [Offsets -> Chars] /\ b.len \in Nat /\ b.len <= EDITBUF_CAPACITY
         /\ b.cursor \in Nat /\ b.cursor <= b.len /\ b.goal_col \in Nat \cup {-1}
         /\ b.top_line \in Nat /\ b.dirty \in BOOLEAN
         /\ \A i \in 0 .. b.len - 1 : b.data[i] \in Chars
<1>1. /\ b.data \in [Offsets -> Chars] /\ b.len \in Nat /\ b.len <= EDITBUF_CAPACITY
      /\ b.cursor \in Nat /\ b.cursor <= b.len /\ b.goal_col \in Nat \cup {-1}
      /\ b.top_line \in Nat /\ b.dirty \in BOOLEAN
  BY BufferSizes DEF BufferOk, Buffers
<1>2. \A i \in 0 .. b.len - 1 : i \in Offsets
  BY <1>1, BufferSizes DEF Offsets
<1> QED
  BY <1>1, <1>2

LEMMA AtOk ==
  ASSUME NEW b, BufferOk(b), NEW off \in 0 .. b.len
  PROVE  BufferOk(At(b, off))
<1>1. off \in 0 .. EDITBUF_CAPACITY /\ off <= b.len
  BY BufferFields, BufferSizes
<1> QED
  BY <1>1 DEF BufferOk, Buffers, At

LEMMA ChangedOk == ASSUME NEW b, BufferOk(b) PROVE BufferOk(Changed(b))
BY DEF BufferOk, Buffers, Changed

LEMMA InsertKeepsBuffer ==
  ASSUME NEW b, BufferOk(b), NEW c \in Chars
  PROVE  BufferOk(eb_insert(b, c))
<1>1. CASE b.len >= EDITBUF_CAPACITY
  BY <1>1 DEF eb_insert
<1>2. CASE ~(b.len >= EDITBUF_CAPACITY)
  <2> DEFINE data == [i \in Offsets |-> IF i = b.cursor THEN c
                                        ELSE IF i \in b.cursor + 1 .. b.len THEN b.data[i - 1]
                                        ELSE b.data[i]]
  <2>1. data \in [Offsets -> Chars]
    <3> SUFFICES ASSUME NEW i \in Offsets
                 PROVE  (IF i = b.cursor THEN c
                         ELSE IF i \in b.cursor + 1 .. b.len THEN b.data[i - 1]
                         ELSE b.data[i]) \in Chars
      OBVIOUS
    <3>1. i \in b.cursor + 1 .. b.len => i - 1 \in Offsets
      BY BufferFields, BufferSizes DEF Offsets
    <3> QED
      BY <3>1, BufferFields
  <2> HIDE DEF data
  <2>2. eb_insert(b, c) = [b EXCEPT !.data = data, !.cursor = b.cursor + 1, !.len = b.len + 1]
    BY <1>2 DEF eb_insert, BufferOk, Buffers, data
  <2>3. /\ b.cursor + 1 \in 0 .. EDITBUF_CAPACITY /\ b.len + 1 \in 0 .. EDITBUF_CAPACITY
        /\ b.cursor + 1 <= b.len + 1
    BY <1>2, BufferFields, BufferSizes
  <2> QED
    BY <2>1, <2>2, <2>3 DEF BufferOk, Buffers
<1> QED
  BY <1>1, <1>2

LEMMA EraseKeepsBuffer ==
  ASSUME NEW b, BufferOk(b), NEW at \in Nat, at < b.len, b.cursor <= b.len - 1
  PROVE  BufferOk(eb_erase(b, at))
<1> DEFINE data == [i \in Offsets |-> IF i \in at .. b.len - 2 THEN b.data[i + 1] ELSE b.data[i]]
<1>1. data \in [Offsets -> Chars]
  <2> SUFFICES ASSUME NEW i \in Offsets
               PROVE  (IF i \in at .. b.len - 2 THEN b.data[i + 1] ELSE b.data[i]) \in Chars
    OBVIOUS
  <2>1. i \in at .. b.len - 2 => i + 1 \in Offsets
    BY BufferFields, BufferSizes DEF Offsets
  <2> QED
    BY <2>1, BufferFields
<1> HIDE DEF data
<1>2. eb_erase(b, at) = [b EXCEPT !.data = data, !.len = b.len - 1]
  BY DEF eb_erase, BufferOk, Buffers, data
<1>3. b.len - 1 \in 0 .. EDITBUF_CAPACITY
  BY BufferFields, BufferSizes
<1> QED
  BY <1>1, <1>2, <1>3 DEF BufferOk, Buffers

LEMMA GoalOk ==
  ASSUME NEW b, BufferOk(b)
  PROVE  /\ BufferOk(WithGoal(b)) /\ WithGoal(b).goal_col \in Nat
         /\ WithGoal(b).cursor = b.cursor /\ WithGoal(b).len = b.len /\ WithGoal(b).data = b.data
<1>1. CASE b.goal_col >= 0
  BY <1>1, BufferFields DEF WithGoal
<1>2. CASE ~(b.goal_col >= 0)
  <2>1. b.cursor - line_start(b, b.cursor) \in Nat
    BY BufferFields, StartStep
  <2>2. WithGoal(b) = [b EXCEPT !.goal_col = b.cursor - line_start(b, b.cursor)]
    BY <1>2 DEF WithGoal
  <2> QED
    BY <2>1, <2>2 DEF BufferOk, Buffers
<1> QED
  BY <1>1, <1>2

\* A buffer with its cursor elsewhere in the text.
LEMMA MovedOk ==
  ASSUME NEW b, BufferOk(b), NEW off \in 0 .. b.len
  PROVE  BufferOk([b EXCEPT !.cursor = off])
<1>1. off \in 0 .. EDITBUF_CAPACITY /\ off <= b.len
  BY BufferFields, BufferSizes
<1> QED
  BY <1>1 DEF BufferOk, Buffers

LEMMA UpOk == ASSUME NEW b, BufferOk(b) PROVE BufferOk(eb_up(b))
<1> DEFINE g == WithGoal(b)
           ls == line_start(g, g.cursor)
           prev == line_start(g, ls - 1)
           back == Min({g.goal_col, ls - 1 - prev})
<1>1. BufferOk(g) /\ g.goal_col \in Nat
  BY GoalOk
<1> HIDE DEF g
<1>2. ls \in 0 .. g.cursor /\ g.cursor \in Nat /\ g.cursor <= g.len /\ g.len \in Nat
  BY <1>1, StartStep, BufferFields
<1>3. eb_up(b) = IF ls = 0 THEN g ELSE [g EXCEPT !.cursor = prev + back]
  BY DEF eb_up, g
<1> HIDE DEF ls
<1>4. CASE ls = 0
  BY <1>1, <1>3, <1>4
<1>5. CASE ls # 0
  <2>1. ls - 1 \in Nat
    BY <1>2, <1>5
  <2>2. prev \in 0 .. ls - 1
    BY <2>1, StartStep
  <2> HIDE DEF prev
  <2>3. ls - 1 - prev \in Nat
    BY <2>1, <2>2
  <2>4. back \in Nat /\ back <= ls - 1 - prev
    BY <1>1, <2>3, LesserIs
  <2> HIDE DEF back
  <2>5. prev + back \in 0 .. g.len
    BY <1>2, <2>1, <2>2, <2>4
  <2> QED
    BY <1>1, <1>3, <1>5, <2>5, MovedOk
<1> QED
  BY <1>4, <1>5

\* The end of the line that offset off is on.
LEMMA EndIs ==
  ASSUME NEW b, b.len \in Nat, NEW off \in 0 .. b.len
  PROVE  LET e == line_end(b, off)
         IN  /\ e \in off .. b.len /\ (e = b.len \/ b.data[e] = NL)
             /\ \A i \in off .. e - 1 : b.data[i] # NL
<1> DEFINE I == {i \in off .. b.len : i = b.len \/ b.data[i] = NL}
<1>1. I \subseteq Nat /\ b.len \in I
  OBVIOUS
<1>2. Min(I) \in I /\ \A i \in I : Min(I) <= i
  <2> HIDE DEF I
  <2> QED
    BY <1>1, MinIs
<1>3. PICK e \in I : e = Min(I)
  BY <1>2
<1>4. \A i \in off .. e - 1 : b.data[i] # NL
  <2> SUFFICES ASSUME NEW i \in off .. e - 1, b.data[i] = NL PROVE FALSE
    OBVIOUS
  <2>1. e \in off .. b.len
    BY <1>3
  <2>2. i \in off .. b.len /\ ~(e <= i)
    BY <2>1
  <2>3. i \in I
    BY <2>2
  <2> HIDE DEF I
  <2> QED
    BY <1>2, <1>3, <2>2, <2>3
<1>5. line_end(b, off) = e
  BY <1>3 DEF line_end
<1> QED
  BY <1>4, <1>5

LEMMA DownOk == ASSUME NEW b, BufferOk(b) PROVE BufferOk(eb_down(b))
<1> DEFINE g == WithGoal(b)
           le == line_end(g, g.cursor)
           next == le + 1
           fwd == Min({g.goal_col, line_end(g, next) - next})
<1>1. BufferOk(g) /\ g.goal_col \in Nat
  BY GoalOk
<1> HIDE DEF g
<1>2. g.cursor \in 0 .. g.len /\ g.len \in Nat
  BY <1>1, BufferFields
<1>3. le \in g.cursor .. g.len
  BY <1>2, EndIs
<1>4. eb_down(b) = IF le >= g.len THEN g ELSE [g EXCEPT !.cursor = next + fwd]
  BY DEF eb_down, g
<1> HIDE DEF le
<1>5. CASE le >= g.len
  BY <1>1, <1>4, <1>5
<1>6. CASE ~(le >= g.len)
  <2>1. next \in 0 .. g.len
    BY <1>2, <1>3, <1>6
  <2> HIDE DEF next
  <2>2. line_end(g, next) \in next .. g.len
    BY <1>2, <2>1, EndIs
  <2>3. line_end(g, next) - next \in Nat
    BY <1>2, <2>1, <2>2
  <2>4. fwd \in Nat /\ fwd <= line_end(g, next) - next
    BY <1>1, <2>3, LesserIs
  <2> HIDE DEF fwd
  <2>5. next + fwd \in 0 .. g.len
    BY <1>2, <2>1, <2>2, <2>4
  <2> QED
    BY <1>1, <1>4, <1>6, <2>5, MovedOk
<1> QED
  BY <1>5, <1>6

\* The characters that are typed are not the names of keys.
LEMMA KeyNames ==
  /\ Printable \subseteq Chars /\ NL \in Chars
  /\ \A key \in Printable : key \notin {NL, BS, "TAB", "LEFT", "RIGHT", "UP", "DOWN", "HOME",
                                        "END", "DELETE", "ESC"}
<1>1. Printable \subseteq STRING
      /\ Printable \cap {NL, BS, "TAB", "LEFT", "RIGHT", "UP", "DOWN", "HOME", "END", "DELETE", "ESC"} = {}
  BY EditBufferAssumption
<1> QED
  BY <1>1 DEF Chars

LEMMA KeyKeepsBuffer ==
  ASSUME NEW b, BufferOk(b), NEW key \in Keys
  PROVE  BufferOk(editbuf_key(b, key))
<1> USE DEF NL, BS
<1>0. b.len \in Nat /\ b.cursor \in Nat /\ b.cursor <= b.len /\ b.cursor \in 0 .. b.len
  BY BufferFields
<1>a. key \in Printable => key \notin {NL, BS, "TAB", "LEFT", "RIGHT", "UP", "DOWN", "HOME",
                                        "END", "DELETE", "ESC"}
  BY KeyNames
<1>1. CASE key = "LEFT"
  <2>1. PICK off \in 0 .. b.len : off = IF b.cursor > 0 THEN b.cursor - 1 ELSE 0
    BY <1>0
  <2>2. editbuf_key(b, key) = At(b, off)
    BY <1>a, <1>1, <2>1 DEF editbuf_key
  <2> QED
    BY <2>2, AtOk
<1>2. CASE key = "RIGHT"
  <2>1. PICK off \in 0 .. b.len : off = IF b.cursor < b.len THEN b.cursor + 1 ELSE b.cursor
    BY <1>0
  <2>2. editbuf_key(b, key) = At(b, off)
    BY <1>a, <1>2, <2>1 DEF editbuf_key
  <2> QED
    BY <2>2, AtOk
<1>3. CASE key = "UP"
  <2>1. editbuf_key(b, key) = eb_up(b)
    BY <1>a, <1>3 DEF editbuf_key
  <2> QED
    BY <2>1, UpOk
<1>4. CASE key = "DOWN"
  <2>1. editbuf_key(b, key) = eb_down(b)
    BY <1>a, <1>4 DEF editbuf_key
  <2> QED
    BY <2>1, DownOk
<1>5. CASE key = "HOME"
  <2>1. line_start(b, b.cursor) \in 0 .. b.len
    BY <1>0, StartStep
  <2>2. editbuf_key(b, key) = At(b, line_start(b, b.cursor))
    BY <1>a, <1>5 DEF editbuf_key
  <2> QED
    BY <2>1, <2>2, AtOk
<1>6. CASE key = "END"
  <2>1. line_end(b, b.cursor) \in 0 .. b.len
    BY <1>0, EndIs
  <2>2. editbuf_key(b, key) = At(b, line_end(b, b.cursor))
    BY <1>a, <1>6 DEF editbuf_key
  <2> QED
    BY <2>1, <2>2, AtOk
<1>7. CASE key = "DELETE"
  <2>1. CASE b.cursor < b.len
    <3>1. editbuf_key(b, key) = Changed(eb_erase(b, b.cursor))
      BY <1>a, <1>7, <2>1 DEF editbuf_key
    <3>2. b.cursor <= b.len - 1
      BY <1>0, <2>1
    <3> QED
      BY <1>0, <2>1, <3>1, <3>2, EraseKeepsBuffer, ChangedOk
  <2>2. CASE ~(b.cursor < b.len)
    <3>1. editbuf_key(b, key) = At(b, b.cursor)
      BY <1>a, <1>7, <2>2 DEF editbuf_key
    <3> QED
      BY <1>0, <3>1, AtOk
  <2> QED
    BY <2>1, <2>2
<1>8. CASE key = BS
  <2>1. CASE b.cursor > 0
    <3> DEFINE m == [b EXCEPT !.cursor = b.cursor - 1]
    <3>1. editbuf_key(b, key) = Changed(eb_erase(m, b.cursor - 1))
      BY <1>a, <1>8, <2>1 DEF editbuf_key
    <3>2. b.cursor - 1 \in 0 .. b.len /\ b.cursor - 1 \in Nat /\ b.cursor - 1 < b.len
          /\ b.cursor - 1 <= b.len - 1
      BY <1>0, <2>1
    <3>3. BufferOk(m) /\ m.len = b.len /\ m.cursor = b.cursor - 1
      <4>1. BufferOk(m)
        BY <3>2, MovedOk
      <4> QED
        BY <4>1 DEF BufferOk, Buffers
    <3> HIDE DEF m
    <3>4. BufferOk(eb_erase(m, b.cursor - 1))
      BY <3>2, <3>3, EraseKeepsBuffer
    <3> QED
      BY <3>1, <3>4, ChangedOk
  <2>2. CASE ~(b.cursor > 0)
    <3>1. editbuf_key(b, key) = At(b, b.cursor)
      BY <1>a, <1>8, <2>2 DEF editbuf_key
    <3> QED
      BY <1>0, <3>1, AtOk
  <2> QED
    BY <2>1, <2>2
<1>9. CASE key = "TAB"
  <2>1. editbuf_key(b, key) = Changed(Spaced(Spaced(Spaced(Spaced(b)))))
    BY <1>a, <1>9 DEF editbuf_key
  <2>2. \A u : BufferOk(u) => BufferOk(Spaced(u))
    <3>1. SPACE \in Chars
      BY DEF Chars
    <3> QED
      BY <3>1, InsertKeepsBuffer DEF Spaced
  <2> QED
    BY <2>1, <2>2, ChangedOk
<1>10. CASE key \in Printable \cup {NL}
  <2>1. editbuf_key(b, key) = Changed(eb_insert(b, key))
    BY <1>a, <1>10 DEF editbuf_key
  <2>2. key \in Chars
    BY <1>10, KeyNames
  <2> QED
    BY <2>1, <2>2, InsertKeepsBuffer, ChangedOk
<1>11. CASE key = "ESC"
  <2>1. editbuf_key(b, key) = b
    BY <1>a, <1>11 DEF editbuf_key
  <2> QED
    BY <2>1
<1> QED
  BY <1>1, <1>2, <1>3, <1>4, <1>5, <1>6, <1>7, <1>8, <1>9, <1>10, <1>11 DEF Keys

-----------------------------------------------------------------------------
(* The page.                                                               *)

LEMMA InitFields ==
  ASSUME NEW n, NEW m
  PROVE  \E cells : textbox_init(n, m) = [cols |-> n, rows |-> m, cells |-> cells,
                                          cursor_row |-> 0, cursor_col |-> 0]
<1> DEFINE u == [cols |-> n, rows |-> m, cells |-> <<>>, cursor_row |-> 0, cursor_col |-> 0]
<1>1. textbox_init(n, m) = textbox_clear(u)
  BY DEF textbox_init
<1>2. \A v : \E cells : textbox_clear(v) = [v EXCEPT !.cells = cells, !.cursor_row = 0, !.cursor_col = 0]
  BY DEF textbox_clear
<1>3. PICK cells : textbox_clear(u) = [u EXCEPT !.cells = cells, !.cursor_row = 0, !.cursor_col = 0]
  BY <1>2
<1>4. textbox_init(n, m) = [cols |-> n, rows |-> m, cells |-> cells, cursor_row |-> 0, cursor_col |-> 0]
  BY <1>1, <1>3
<1> QED
  BY <1>4

\* The place where the top line begins.
LEMMA FromIs ==
  ASSUME NEW b, b.len \in Nat, NEW top \in Nat, top <= Row(b, b.len)
  PROVE  LET from == Min({i \in 0 .. b.len : i = b.len \/ Cardinality(Breaks(b, i)) >= top})
         IN  /\ from \in 0 .. b.len /\ Row(b, from) = top
             /\ \A i \in 0 .. b.len : i >= from <=> Row(b, i) >= top
<1> DEFINE I == {i \in 0 .. b.len : i = b.len \/ Cardinality(Breaks(b, i)) >= top}
<1>1. I \subseteq Nat /\ b.len \in I
  OBVIOUS
<1>2. Min(I) \in I /\ \A i \in I : Min(I) <= i
  <2> HIDE DEF I
  <2> QED
    BY <1>1, MinIs
<1>3. PICK from \in I : from = Min(I)
  BY <1>2
<1>4. from \in 0 .. b.len
  OBVIOUS
<1>5. \A i \in 0 .. b.len : i \in I <=> Row(b, i) >= top
  BY DEF Row
<1>6. \A i \in 0 .. b.len : Row(b, i) >= top => i >= from
  BY <1>2, <1>3, <1>4, <1>5
<1>7. Row(b, from) >= top
  BY <1>3, <1>4, <1>5
<1> HIDE DEF I
<1>8. ASSUME NEW i \in 0 .. b.len, i >= from PROVE Row(b, i) >= top
  <2>1. from \in 0 .. i /\ i \in Nat /\ from \in Nat
    BY <1>4, <1>8
  <2>2. Row(b, from) <= Row(b, i) /\ Row(b, from) \in Nat /\ Row(b, i) \in Nat
    BY <2>1, RowGrows, RowStep
  <2> QED
    BY <1>7, <2>2
<1>9. Row(b, from) = top
  <2>1. CASE from = 0
    <3>1. Row(b, from) = 0
      BY <2>1, RowStep
    <3> QED
      BY <1>7, <3>1
  <2>2. CASE from # 0
    <3>1. PICK k \in 0 .. b.len : k = from - 1 /\ k \in Nat /\ k + 1 = from /\ ~(k >= from)
      BY <1>4, <2>2
    <3>2. Row(b, k) < top /\ Row(b, k) \in Nat
      BY <1>6, <3>1, RowStep
    <3>3. Row(b, k + 1) <= Row(b, k) + 1 /\ Row(b, k + 1) \in Nat
      BY <3>1, <3>2, RowStep
    <3> QED
      BY <1>7, <3>1, <3>2, <3>3
  <2> QED
    BY <2>1, <2>2
<1> QED
  BY <1>3, <1>4, <1>6, <1>8, <1>9 DEF I

\* What a page has at row r and column c.
Here(b, top, r, c) == {p \in Placed(b, top) : p.row = r /\ p.col = c}

\* Where the scan puts each character, from the top line on.
LEMMA PlacedIs ==
  ASSUME NEW b, b.len \in Nat, NEW top \in Nat, top <= Row(b, b.len),
         NEW r \in Nat, NEW c \in Nat
  PROVE  /\ \A p \in Here(b, top, r, c) : \E i \in 0 .. b.len - 1 : Falls(b, i, top + r, c) /\ p.char = b.data[i]
         /\ \A i \in 0 .. b.len - 1 : Falls(b, i, top + r, c) => Here(b, top, r, c) # {}
<1> DEFINE from == Min({i \in 0 .. b.len : i = b.len \/ Cardinality(Breaks(b, i)) >= top})
           P(i) == [row |-> Row(b, i) - top, col |-> i - line_start(b, i), char |-> b.data[i]]
<1>1. /\ from \in 0 .. b.len /\ Row(b, from) = top
      /\ \A i \in 0 .. b.len : i >= from <=> Row(b, i) >= top
  BY FromIs
<1>2. Placed(b, top) = {P(i) : i \in {j \in from .. b.len - 1 : b.data[j] # NL}}
  BY <1>1 DEF Placed, Row
<1> HIDE DEF from
<1>3. ASSUME NEW p \in Placed(b, top), p.row = r, p.col = c
      PROVE  \E i \in 0 .. b.len - 1 : Falls(b, i, top + r, c) /\ p.char = b.data[i]
  <2>1. PICK i \in from .. b.len - 1 : b.data[i] # NL /\ p = P(i)
    BY <1>2
  <2>2. i \in 0 .. b.len - 1 /\ i \in Nat
    BY <1>1
  <2>3. Row(b, i) \in Nat /\ Row(b, i) - top = r /\ i - line_start(b, i) = c /\ p.char = b.data[i]
    BY <1>3, <2>1, <2>2, RowStep
  <2>4. Row(b, i) = top + r
    BY <2>3
  <2> QED
    BY <2>1, <2>2, <2>3, <2>4 DEF Falls
<1>4. ASSUME NEW i \in 0 .. b.len - 1, Falls(b, i, top + r, c)
      PROVE  \E p \in Placed(b, top) : p.row = r /\ p.col = c
  <2>1. b.data[i] # NL /\ Row(b, i) = top + r /\ i - line_start(b, i) = c
    BY <1>4 DEF Falls
  <2>2. i \in 0 .. b.len /\ Row(b, i) >= top /\ Row(b, i) - top = r
    BY <2>1
  <2>3. i \in from .. b.len - 1
    BY <1>1, <2>2
  <2>4. P(i) \in Placed(b, top)
    BY <1>2, <2>1, <2>3
  <2>5. P(i).row = r /\ P(i).col = c
    BY <2>1, <2>2
  <2> QED
    BY <2>4, <2>5
<1> QED
  BY <1>3, <1>4 DEF Here

\* The cell of the page there.
Cell(b, top, r, c) ==
  IF Here(b, top, r, c) = {} THEN SPACE ELSE (CHOOSE p \in Here(b, top, r, c) : TRUE).char

\* Every cell of a page holds the character that is there in the text.
LEMMA CellShows ==
  ASSUME NEW b, BufferOk(b), NEW top \in Nat, top <= Row(b, b.len),
         NEW r \in Nat, NEW c \in Nat, NEW ls, Spells(b, b.len, ls)
  PROVE  Cell(b, top, r, c) = IF top + r < Len(ls) /\ c < Len(ls[top + r + 1])
                              THEN ls[top + r + 1][c + 1] ELSE SPACE
<1> DEFINE here == Here(b, top, r, c)
           there == top + r < Len(ls) /\ c < Len(ls[top + r + 1])
<1>0. b.len \in Nat /\ Row(b, b.len) \in Nat
  BY BufferFields, RowStep
<1>1. /\ \A p \in here : \E i \in 0 .. b.len - 1 : Falls(b, i, top + r, c) /\ p.char = b.data[i]
      /\ \A i \in 0 .. b.len - 1 : Falls(b, i, top + r, c) => here # {}
  BY <1>0, PlacedIs
<1>a. Cell(b, top, r, c) = IF here = {} THEN SPACE ELSE (CHOOSE p \in here : TRUE).char
  BY DEF Cell
<1> HIDE DEF here
<1>2. there <=> \E i \in 0 .. b.len - 1 : Falls(b, i, top + r, c)
  <2>1. top + r \in Nat /\ (top + r < Len(ls) <=> top + r <= Row(b, b.len))
    BY <1>0 DEF Spells
  <2>2. top + r <= Row(b, b.len) /\ c < Len(ls[(top + r) + 1])
          <=> \E i \in 0 .. b.len - 1 : Falls(b, i, top + r, c)
    BY <2>1 DEF Spells
  <2> QED
    BY <2>1, <2>2
<1>3. \A i \in 0 .. b.len - 1 : Falls(b, i, top + r, c) => ls[top + r + 1][c + 1] = b.data[i]
  <2>1. top + r \in Nat
    OBVIOUS
  <2>2. \A i \in 0 .. b.len - 1 : Falls(b, i, top + r, c) => ls[(top + r) + 1][c + 1] = b.data[i]
    BY <2>1 DEF Spells
  <2> QED
    BY <2>2
<1>4. CASE here = {}
  <2>1. ~there
    BY <1>1, <1>2, <1>4
  <2> QED
    BY <1>4, <1>a, <2>1
<1>5. CASE here # {}
  <2> DEFINE p == CHOOSE q \in here : TRUE
  <2>1. p \in here
    BY <1>5
  <2>2. PICK i \in 0 .. b.len - 1 : Falls(b, i, top + r, c) /\ p.char = b.data[i]
    BY <1>1, <2>1
  <2>3. there /\ p.char = ls[top + r + 1][c + 1]
    BY <1>2, <1>3, <2>2
  <2> QED
    BY <1>5, <1>a, <2>3
<1> QED
  BY <1>4, <1>5

\* What the editor shows of the buffer b from line top on.
Shows(b, top, tb) ==
  /\ tb.cursor_row \in 0 .. TE_ROWS - 1
  /\ tb.cursor_row + top = Row(b, b.cursor)
  /\ tb.cursor_col = Min({b.cursor - line_start(b, b.cursor), TE_COLS - 1})
  /\ \A r \in 0 .. TE_ROWS - 1, c \in 0 .. TE_COLS - 1 :
       tb.cells[r][c] =
         LET ls == LinesOf(Flat(b, b.len))
         IN  IF top + r < Len(ls) /\ c < Len(ls[top + r + 1]) THEN ls[top + r + 1][c + 1] ELSE SPACE

LEMMA TopIs ==
  ASSUME NEW b, BufferOk(b)
  PROVE  /\ TopLine(b) \in Nat /\ TopLine(b) <= Row(b, b.cursor)
         /\ Row(b, b.cursor) < TopLine(b) + TE_ROWS
<1>1. PICK n \in Nat : n = Row(b, b.cursor)
  BY BufferFields, RowStep
<1>2. PICK m \in Nat : m = Min({b.top_line, n}) /\ m <= n
  BY BufferFields, LesserIs
<1>3. TopLine(b) = IF n >= m + TE_ROWS THEN n - TE_ROWS + 1 ELSE m
  BY <1>1, <1>2 DEF TopLine, Row
<1> QED
  BY <1>1, <1>2, <1>3, BufferSizes

LEMMA RenderShows ==
  ASSUME NEW b, BufferOk(b), NEW top \in Nat, top <= Row(b, b.cursor), Row(b, b.cursor) < top + TE_ROWS
  PROVE  Shows(b, top, editbuf_render(b, top))
<1> DEFINE cells == [r \in 0 .. TE_ROWS - 1 |-> [c \in 0 .. TE_COLS - 1 |-> Cell(b, top, r, c)]]
           ls == LinesOf(Flat(b, b.len))
           tb == editbuf_render(b, top)
           row == Cardinality(Breaks(b, b.cursor)) - top
           col == Min({b.cursor - line_start(b, b.cursor), TE_COLS - 1})
<1>1. tb.cells = cells /\ tb.cursor_row = row /\ tb.cursor_col = col
  <2>1. PICK cs : textbox_init(TE_COLS, TE_ROWS) = [cols |-> TE_COLS, rows |-> TE_ROWS, cells |-> cs,
                                                    cursor_row |-> 0, cursor_col |-> 0]
    BY InitFields
  <2>2. tb = [textbox_init(TE_COLS, TE_ROWS) EXCEPT !.cells = cells, !.cursor_row = row, !.cursor_col = col]
    BY DEF editbuf_render, Cell, Here
  <2> HIDE DEF cells, row, col, tb
  <2> QED
    BY <2>1, <2>2
<1> HIDE DEF tb
<1>2. \A r \in 0 .. TE_ROWS - 1, c \in 0 .. TE_COLS - 1 : cells[r][c] = Cell(b, top, r, c)
  OBVIOUS
<1>3. top <= Row(b, b.len)
  <2>1. b.cursor \in 0 .. b.len /\ b.len \in Nat /\ b.cursor \in Nat
    BY BufferFields
  <2>2. Row(b, b.cursor) <= Row(b, b.len) /\ Row(b, b.cursor) \in Nat /\ Row(b, b.len) \in Nat
    BY <2>1, RowGrows, RowStep
  <2> QED
    BY <2>2
<1>4. Spells(b, b.len, ls)
  BY BufferFields, LinesSpell
<1> HIDE DEF ls
<1>5. ASSUME NEW r \in 0 .. TE_ROWS - 1, NEW c \in 0 .. TE_COLS - 1
      PROVE  Cell(b, top, r, c) = IF top + r < Len(ls) /\ c < Len(ls[top + r + 1])
                                   THEN ls[top + r + 1][c + 1] ELSE SPACE
  <2>1. r \in Nat /\ c \in Nat
    BY BufferSizes
  <2> QED
    BY <1>3, <1>4, <2>1, CellShows
<1> HIDE DEF cells
<1>6. row \in 0 .. TE_ROWS - 1 /\ row + top = Row(b, b.cursor)
  <2>1. Row(b, b.cursor) \in Nat
    BY BufferFields, RowStep
  <2> QED
    BY <2>1, BufferSizes DEF Row
<1> HIDE DEF row, col
<1> QED
  BY <1>1, <1>2, <1>5, <1>6 DEF Shows, ls, col, tb

\* The page as the invariant has it.
LEMMA PageIs ==
  PageShowsText <=> \A tb \in page : Shows(eb, eb.top_line, tb)
BY DEF PageShowsText, Shows, Document, Flat, CursorRow, CursorCol, Row, Breaks

EditorInv == BufferOk(eb) /\ PageShowsText

LEMMA EditorInitOk == ASSUME EditorInit PROVE EditorInv
<1>1. PICK d \in Documents :
        eb = [data |-> [i \in Offsets |-> IF i < Len(d) THEN d[i + 1] ELSE "?"], len |-> Len(d),
              cursor |-> 0, goal_col |-> -1, top_line |-> 0, dirty |-> FALSE]
  BY DEF EditorInit
<1> DEFINE data == [i \in Offsets |-> IF i < Len(d) THEN d[i + 1] ELSE "?"]
<1>2. d \in Seq(STRING) /\ Len(d) <= EDITBUF_CAPACITY
  BY EditBufferAssumption
<1>3. PICK n \in Nat : n = Len(d)
  BY <1>2
<1>4. data \in [Offsets -> Chars]
  <2> SUFFICES ASSUME NEW i \in Offsets PROVE (IF i < Len(d) THEN d[i + 1] ELSE "?") \in Chars
    OBVIOUS
  <2>1. i < n => i + 1 \in 1 .. n
    BY BufferSizes DEF Offsets
  <2>2. i < n => d[i + 1] \in STRING
    BY <1>2, <1>3, <2>1
  <2> QED
    BY <1>3, <2>2 DEF Chars
<1> HIDE DEF data
<1>5. eb = [data |-> data, len |-> n, cursor |-> 0, goal_col |-> -1, top_line |-> 0, dirty |-> FALSE]
  BY <1>1, <1>3 DEF data
<1>6. n \in 0 .. EDITBUF_CAPACITY /\ 0 \in 0 .. EDITBUF_CAPACITY
  BY <1>2, <1>3, BufferSizes
<1>7. BufferOk(eb)
  BY <1>4, <1>5, <1>6 DEF BufferOk, Buffers
<1>8. page = {}
  BY DEF EditorInit
<1> QED
  BY <1>7, <1>8 DEF EditorInv, PageShowsText

LEMMA EditorKeeps == ASSUME EditorInv, [EditorNext]_editorVars PROVE EditorInv'
<1>0. BufferOk(eb)
  BY DEF EditorInv
<1>1. CASE \E key \in Keys : EditorKey(key)
  <2>1. PICK key \in Keys : eb' = editbuf_key(eb, key) /\ page' = {}
    BY <1>1 DEF EditorKey
  <2>2. BufferOk(eb')
    BY <1>0, <2>1, KeyKeepsBuffer
  <2> QED
    BY <2>1, <2>2 DEF EditorInv, PageShowsText
<1>2. CASE EditorShow
  <2> DEFINE top == TopLine(eb)
  <2>1. page' = {editbuf_render(eb, top)} /\ eb' = [eb EXCEPT !.top_line = top]
    BY <1>2 DEF EditorShow
  <2>2. top \in Nat /\ Shows(eb, top, editbuf_render(eb, top))
    BY <1>0, TopIs, RenderShows
  <2> HIDE DEF top
  <2>3. /\ BufferOk(eb') /\ eb'.top_line = top /\ eb'.data = eb.data /\ eb'.len = eb.len
        /\ eb'.cursor = eb.cursor
    BY <1>0, <2>1, <2>2 DEF BufferOk, Buffers
  <2>4. \A n : Breaks(eb', n) = Breaks(eb, n) /\ line_start(eb', n) = line_start(eb, n) /\ Flat(eb', n) = Flat(eb, n)
    BY <2>3 DEF Breaks, line_start, Flat
  <2>5. \A tb : Shows(eb, top, tb) => Shows(eb', eb'.top_line, tb)
    <3>1. \A n : Row(eb', n) = Row(eb, n)
      BY <2>4 DEF Row
    <3>2. Flat(eb', eb'.len) = Flat(eb, eb.len)
      BY <2>3, <2>4
    <3>3. line_start(eb', eb'.cursor) = line_start(eb, eb.cursor) /\ Row(eb', eb'.cursor) = Row(eb, eb.cursor)
      BY <2>3, <2>4, <3>1
    <3> QED
      BY <2>3, <3>2, <3>3 DEF Shows
  <2>6. \A tb \in page' : Shows(eb', eb'.top_line, tb)
    BY <2>1, <2>2, <2>5
  <2>7. (PageShowsText <=> \A tb \in page : Shows(eb, eb.top_line, tb))'
    BY PageIs, PTL
  <2> QED
    BY <2>3, <2>6, <2>7 DEF EditorInv
<1>3. CASE EditorSave
  <2>1. eb' = [eb EXCEPT !.dirty = FALSE] /\ page' = {}
    BY <1>3 DEF EditorSave
  <2>2. BufferOk(eb')
    BY <1>0, <2>1 DEF BufferOk, Buffers
  <2> QED
    BY <2>1, <2>2 DEF EditorInv, PageShowsText
<1>4. CASE UNCHANGED editorVars
  <2>1. eb' = eb /\ page' = page
    BY <1>4 DEF editorVars
  <2> QED
    <3>1. BufferOk(eb')
      BY <1>0, <2>1
    <3>2. (PageShowsText <=> \A tb \in page : Shows(eb, eb.top_line, tb))'
      BY PageIs, PTL
    <3>3. \A tb \in page : Shows(eb, eb.top_line, tb)
      BY PageIs DEF EditorInv
    <3>4. \A tb \in page' : Shows(eb', eb'.top_line, tb)
      BY <2>1, <3>3
    <3> QED
      BY <3>1, <3>2, <3>4 DEF EditorInv
<1> QED
  BY <1>1, <1>2, <1>3, <1>4 DEF EditorNext

LEMMA EditorInvariant == Spec => []EditorInv
<1>1. Init => EditorInv
  BY EditorInitOk DEF Init
<1>2. EditorInv /\ [Next]_textVars => EditorInv'
  <2> SUFFICES ASSUME EditorInv, [Next]_textVars PROVE EditorInv'
    OBVIOUS
  <2>1. [EditorNext]_editorVars
    BY DEF Next, textVars, editorVars
  <2> QED
    BY <2>1, EditorKeeps
<1> QED
  BY <1>1, <1>2, PTL DEF Spec

(* A page that has been rendered shows the lines of the text from the top  *)
(* line on, cut at its right edge, and its cursor where the text's is.     *)
THEOREM EditorShowsItsText == Spec => []PageShowsText
<1>1. EditorInv => PageShowsText
  BY DEF EditorInv
<1> QED
  BY <1>1, EditorInvariant, PTL

-----------------------------------------------------------------------------
(* The list of lines of a text taken apart at any of its offsets.          *)

\* What a list of lines is: it has a last line.
Written(ls) == ls \in Seq(Seq(Chars)) /\ Len(ls) \in Nat /\ Len(ls) > 0

MoreOf(ls, c, ms) ==
  /\ Written(ms)
  /\ IF c = NL
     THEN /\ Len(ms) = Len(ls) + 1 /\ ms[Len(ls) + 1] = <<>>
          /\ \A i \in 1 .. Len(ls) : ms[i] = ls[i]
     ELSE /\ Len(ms) = Len(ls) /\ ms[Len(ls)] = Append(ls[Len(ls)], c)
          /\ \A i \in 1 .. Len(ls) - 1 : ms[i] = ls[i]

LEMMA MoreIs ==
  ASSUME NEW ls, Written(ls), NEW c \in Chars
  PROVE  MoreOf(ls, c, More(ls, c))
<1>1. PICK n \in Nat : n = Len(ls) /\ n > 0
  BY DEF Written
<1>2. ls \in Seq(Seq(Chars))
  BY DEF Written
<1>3. CASE c = NL
  <2> DEFINE ms == Append(ls, <<>>)
  <2>1. <<>> \in Seq(Chars)
    OBVIOUS
  <2>2. ms \in Seq(Seq(Chars)) /\ Len(ms) = n + 1 /\ ms[n + 1] = <<>> /\ \A i \in 1 .. n : ms[i] = ls[i]
    BY <1>1, <1>2, <2>1, AppendProperties
  <2>3. More(ls, c) = ms
    BY <1>3 DEF More
  <2> HIDE DEF ms
  <2> QED
    BY <1>1, <1>3, <2>2, <2>3 DEF MoreOf, Written
<1>4. CASE c # NL
  <2> DEFINE last == Append(ls[n], c)
             ms == [ls EXCEPT ![n] = last]
  <2>1. n \in 1 .. Len(ls)
    BY <1>1
  <2>2. last \in Seq(Chars)
    BY <1>1, <1>2, <2>1, ElementOfSeq, AppendProperties
  <2>3. More(ls, c) = ms
    BY <1>1, <1>4 DEF More
  <2> HIDE DEF last
  <2>4. ms \in Seq(Seq(Chars)) /\ Len(ms) = n /\ \A i \in 1 .. n : ms[i] = IF i = n THEN last ELSE ls[i]
    BY <1>1, <1>2, <2>1, <2>2, ExceptSeq
  <2> HIDE DEF ms
  <2>5. /\ Written(ms) /\ Len(ms) = Len(ls) /\ ms[Len(ls)] = last
        /\ \A i \in 1 .. Len(ls) - 1 : ms[i] = ls[i]
    <3>1. \A i \in 1 .. n - 1 : i \in 1 .. n /\ i # n
      OBVIOUS
    <3> QED
      BY <1>1, <2>1, <2>4, <3>1 DEF Written
  <2> QED
    BY <1>1, <1>4, <2>3, <2>5 DEF MoreOf, last
<1> QED
  BY <1>3, <1>4

\* Texts that agree on their first characters have the same lines there.
LEMMA OneList ==
  ASSUME NEW s, NEW t, NEW n \in Nat, NEW m \in Nat, NEW u, NEW v, Lists(s, n, u), Lists(t, m, v),
         NEW k \in Nat, k <= n, k <= m, \A i \in 1 .. k : s[i] = t[i]
  PROVE  u[k] = v[k]
<1>1. \A j \in 0 .. n : u[j] = IF j = 0 THEN << <<>> >> ELSE More(u[j - 1], s[j])
  BY DEF Lists
<1>2. \A j \in 0 .. m : v[j] = IF j = 0 THEN << <<>> >> ELSE More(v[j - 1], t[j])
  BY DEF Lists
<1> DEFINE I == {j \in 0 .. k : u[j] # v[j]}
<1>3. I = {}
  <2> SUFFICES ASSUME I # {} PROVE FALSE
    OBVIOUS
  <2>0. I \subseteq Nat
    OBVIOUS
  <2>1. PICK j \in I : \A i \in I : j <= i
    BY <2>0, SomeLeast
  <2>2. j \in 0 .. k /\ u[j] # v[j] /\ j \in 0 .. n /\ j \in 0 .. m
    OBVIOUS
  <2>3. j # 0
    BY <1>1, <1>2, <2>2
  <2>4. j - 1 \in 0 .. k /\ ~(j <= j - 1) /\ j \in 1 .. k
    BY <2>2, <2>3
  <2>5. u[j - 1] = v[j - 1]
    BY <2>1, <2>4
  <2> HIDE DEF I
  <2>6. u[j] = More(u[j - 1], s[j]) /\ v[j] = More(v[j - 1], t[j]) /\ s[j] = t[j]
    BY <1>1, <1>2, <2>2, <2>3, <2>4
  <2> QED
    BY <2>2, <2>5, <2>6
<1>4. k \in 0 .. k
  OBVIOUS
<1> QED
  BY <1>3, <1>4

LEMMA LinesAre ==
  ASSUME NEW s, Len(s) \in Nat
  PROVE  \E u : Lists(s, Len(s), u) /\ LinesOf(s) = u[Len(s)]
<1> DEFINE n == Len(s)
           u == CHOOSE v : Lists(s, n, v)
<1>1. LinesOf(s) = u[n]
  BY DEF LinesOf, Lists, More
<1>2. Lists(s, n, u)
  BY ListsExist
<1> HIDE DEF u
<1> QED
  BY <1>1, <1>2

\* The lines of no text, and of one with a further character.
LEMMA LinesStep ==
  ASSUME NEW s \in Seq(Chars), NEW c \in Chars
  PROVE  LinesOf(<<>>) = << <<>> >> /\ LinesOf(Append(s, c)) = More(LinesOf(s), c)
<1>1. LinesOf(<<>>) = << <<>> >>
  <2>1. Len(<<>>) = 0 /\ 0 \in Nat
    OBVIOUS
  <2>2. PICK u : Lists(<<>>, 0, u) /\ LinesOf(<<>>) = u[0]
    BY <2>1, LinesAre
  <2>3. 0 \in 0 .. 0
    OBVIOUS
  <2>4. u[0] = << <<>> >>
    BY <2>2, <2>3 DEF Lists
  <2> QED
    BY <2>2, <2>4
<1>2. LinesOf(Append(s, c)) = More(LinesOf(s), c)
  <2>1. PICK n \in Nat : n = Len(s)
    OBVIOUS
  <2> DEFINE t == Append(s, c)
  <2>2. Len(t) = n + 1 /\ t[n + 1] = c /\ \A i \in 1 .. n : s[i] = t[i]
    BY <2>1, AppendProperties
  <2> HIDE DEF t
  <2>3. PICK u : Lists(s, n, u) /\ LinesOf(s) = u[n]
    BY <2>1, LinesAre
  <2>4. PICK v : Lists(t, n + 1, v) /\ LinesOf(t) = v[n + 1]
    BY <2>2, LinesAre
  <2>5. n + 1 \in Nat /\ n <= n + 1 /\ n <= n /\ n + 1 \in 0 .. n + 1 /\ n + 1 # 0 /\ (n + 1) - 1 = n
    OBVIOUS
  <2>6. u[n] = v[n]
    BY <2>2, <2>3, <2>4, <2>5, OneList
  <2>7. v[n + 1] = More(v[n], t[n + 1])
    BY <2>4, <2>5 DEF Lists
  <2> QED
    BY <2>2, <2>3, <2>4, <2>6, <2>7 DEF t
<1> QED
  BY <1>1, <1>2

\* A text is empty, or another with a character behind it.
LEMMA TextEnds ==
  ASSUME NEW t \in Seq(Chars), Len(t) # 0
  PROVE  \E s \in Seq(Chars), c \in Chars : t = Append(s, c) /\ Len(s) = Len(t) - 1
<1>1. PICK n \in Nat : Len(t) = n + 1
  <2>1. Len(t) - 1 \in Nat /\ (Len(t) - 1) + 1 = Len(t)
    OBVIOUS
  <2> QED
    BY <2>1
<1> DEFINE s == SubSeq(t, 1, n)
           c == t[n + 1]
<1>2. \A i \in 1 .. n + 1 : t[i] \in Chars
  BY <1>1, ElementOfSeq
<1>3. s \in Seq(Chars) /\ Len(s) = n /\ \A i \in 1 .. n : s[i] = t[i]
  BY <1>2, SubSeqProperties
<1>4. c \in Chars
  BY <1>2
<1> HIDE DEF s
<1>5. t = Append(s, c)
  <2> DEFINE a == Append(s, c)
  <2>1. a \in Seq(Chars) /\ Len(a) = n + 1 /\ a[n + 1] = c /\ \A i \in 1 .. n : a[i] = s[i]
    BY <1>3, <1>4, AppendProperties
  <2> HIDE DEF a
  <2>2. \A i \in 1 .. n + 1 : t[i] = a[i]
    BY <1>3, <2>1
  <2> QED
    BY <1>1, <2>1, <2>2, SeqEqual DEF a
<1> QED
  BY <1>1, <1>3, <1>4, <1>5

LEMMA LinesWritten == ASSUME NEW s \in Seq(Chars) PROVE Written(LinesOf(s))
<1> DEFINE I == {n \in Nat : \E t \in Seq(Chars) : Len(t) = n /\ ~Written(LinesOf(t))}
<1>1. I = {}
  <2> SUFFICES ASSUME I # {} PROVE FALSE
    OBVIOUS
  <2>1. PICK n \in I : \A i \in I : n <= i
    BY SomeLeast
  <2>2. PICK t \in Seq(Chars) : Len(t) = n /\ ~Written(LinesOf(t)) /\ n \in Nat
    OBVIOUS
  <2>3. CASE n = 0
    <3>1. t = <<>>
      BY <2>2, <2>3
    <3>2. LinesOf(t) = << <<>> >>
      BY <3>1, KeyNames, LinesStep
    <3> HIDE DEF I
    <3> DEFINE ls == << <<>> >>
    <3>3. ls \in Seq(Seq(Chars)) /\ Len(ls) = 1
      OBVIOUS
    <3>4. Written(ls)
      BY <3>3 DEF Written
    <3> QED
      BY <2>2, <3>2, <3>4
  <2>4. CASE n # 0
    <3>1. PICK r \in Seq(Chars), c \in Chars : t = Append(r, c) /\ Len(r) = n - 1
      BY <2>2, <2>4, TextEnds
    <3>2. n - 1 \in Nat /\ ~(n <= n - 1)
      BY <2>2, <2>4
    <3>3. n - 1 \notin I
      BY <2>1, <3>2
    <3>4. Written(LinesOf(r))
      BY <3>1, <3>2, <3>3
    <3> HIDE DEF I
    <3>5. LinesOf(t) = More(LinesOf(r), c)
      BY <3>1, LinesStep
    <3>6. Written(More(LinesOf(r), c))
      BY <3>4, MoreIs DEF MoreOf
    <3> QED
      BY <2>2, <3>5, <3>6
  <2> QED
    BY <2>3, <2>4
<1>2. Len(s) \in Nat
  OBVIOUS
<1> QED
  BY <1>1, <1>2

\* Two lists of lines one behind the other: the last line of the first goes
\* on with the first line of the second.
Glue(P, Q) ==
  [i \in 1 .. Len(P) + Len(Q) - 1 |-> IF i < Len(P) THEN P[i]
                                      ELSE IF i = Len(P) THEN P[i] \o Q[1]
                                      ELSE Q[i - Len(P) + 1]]

GlueOf(P, Q, ls) ==
  /\ Written(ls) /\ Len(ls) = Len(P) + Len(Q) - 1
  /\ \A i \in 1 .. Len(P) - 1 : ls[i] = P[i]
  /\ ls[Len(P)] = P[Len(P)] \o Q[1]
  /\ \A i \in 2 .. Len(Q) : ls[Len(P) + i - 1] = Q[i]

LEMMA GlueIs ==
  ASSUME NEW P, Written(P), NEW Q, Written(Q)
  PROVE  GlueOf(P, Q, Glue(P, Q))
<1>1. PICK n \in Nat : n = Len(P) /\ n > 0
  BY DEF Written
<1>2. PICK m \in Nat : m = Len(Q) /\ m > 0
  BY DEF Written
<1> DEFINE Line(i) == IF i < n THEN P[i] ELSE IF i = n THEN P[i] \o Q[1] ELSE Q[i - n + 1]
           ls == [i \in 1 .. n + m - 1 |-> Line(i)]
<1>3. ASSUME NEW i \in 1 .. n + m - 1 PROVE Line(i) \in Seq(Chars)
  <2>1. i <= n => i \in 1 .. Len(P)
    BY <1>1
  <2>2. ~(i <= n) => i - n + 1 \in 1 .. Len(Q)
    BY <1>2
  <2>3. 1 \in 1 .. Len(Q)
    BY <1>2
  <2>4. i <= n => P[i] \in Seq(Chars)
    BY <2>1, ElementOfSeq DEF Written
  <2>5. ~(i <= n) => Q[i - n + 1] \in Seq(Chars)
    BY <2>2, ElementOfSeq DEF Written
  <2>6. Q[1] \in Seq(Chars)
    BY <2>3, ElementOfSeq DEF Written
  <2>7. i <= n => P[i] \o Q[1] \in Seq(Chars)
    BY <2>4, <2>6, ConcatProperties
  <2>8. (i < n => i <= n) /\ (i = n => i <= n) /\ (~(i < n) /\ i # n => ~(i <= n))
    OBVIOUS
  <2> QED
    BY <2>4, <2>5, <2>7, <2>8
<1>4. ls \in Seq(Seq(Chars)) /\ Len(ls) = n + m - 1 /\ \A i \in 1 .. n + m - 1 : ls[i] = Line(i)
  <2>1. n + m - 1 \in Nat
    BY <1>1, <1>2
  <2> HIDE DEF Line
  <2> QED
    BY <1>3, <2>1
<1>5. Glue(P, Q) = ls
  BY <1>1, <1>2 DEF Glue
<1> HIDE DEF ls
<1>6. \A i \in 1 .. n - 1 : ls[i] = P[i]
  <2>1. \A i \in 1 .. n - 1 : i \in 1 .. n + m - 1 /\ i < n
    BY <1>1, <1>2
  <2>2. \A i \in 1 .. n - 1 : Line(i) = P[i]
    BY <2>1
  <2> HIDE DEF Line
  <2> QED
    BY <1>4, <2>1, <2>2
<1>7. ls[n] = P[n] \o Q[1]
  <2>1. n \in 1 .. n + m - 1 /\ ~(n < n)
    BY <1>1, <1>2
  <2> QED
    BY <1>4, <2>1
<1>8. ASSUME NEW i \in 2 .. m PROVE ls[n + i - 1] = Q[i]
  <2>1. n + i - 1 \in 1 .. n + m - 1 /\ ~(n + i - 1 < n) /\ n + i - 1 # n /\ n + i - 1 - n + 1 = i
    BY <1>1
  <2> QED
    BY <1>4, <2>1
<1>9. Written(ls)
  BY <1>1, <1>2, <1>4 DEF Written
<1> QED
  BY <1>1, <1>2, <1>4, <1>5, <1>6, <1>7, <1>8, <1>9 DEF GlueOf

LEMMA GlueLine ==
  ASSUME NEW P, Written(P), NEW Q, Written(Q)
  PROVE  P[Len(P)] \in Seq(Chars) /\ Q[1] \in Seq(Chars)
<1>1. Len(P) \in 1 .. Len(P) /\ 1 \in 1 .. Len(Q)
  BY DEF Written
<1> QED
  BY <1>1, ElementOfSeq DEF Written

LEMMA SameLines ==
  ASSUME NEW P, Written(P), NEW Q, Written(Q), Len(P) = Len(Q), \A i \in 1 .. Len(P) : P[i] = Q[i]
  PROVE  P = Q
<1>1. P \in Seq(Seq(Chars)) /\ Q \in Seq(Seq(Chars))
  BY DEF Written
<1> QED
  BY <1>1, SeqEqual

NoLines == << <<>> >>

LEMMA GlueNone ==
  ASSUME NEW P, Written(P)
  PROVE  Written(NoLines) /\ Glue(P, NoLines) = P
<1>1. NoLines \in Seq(Seq(Chars)) /\ Len(NoLines) = 1 /\ NoLines[1] = <<>>
  BY DEF NoLines
<1>2. Written(NoLines)
  BY <1>1 DEF Written
<1>3. PICK n \in Nat : n = Len(P) /\ n > 0
  BY DEF Written
<1> DEFINE G == Glue(P, NoLines)
<1>4. GlueOf(P, NoLines, G)
  BY <1>2, GlueIs
<1> HIDE DEF G
<1>5. Written(G) /\ Len(G) = n /\ \A i \in 1 .. n - 1 : G[i] = P[i]
  BY <1>1, <1>3, <1>4 DEF GlueOf
<1>6. G[n] = P[n]
  <2>1. P[n] \in Seq(Chars)
    BY <1>2, <1>3, GlueLine
  <2>2. G[n] = P[n] \o <<>>
    BY <1>1, <1>3, <1>4 DEF GlueOf
  <2> QED
    BY <2>1, <2>2, ConcatEmptySeq
<1>7. \A i \in 1 .. n : G[i] = P[i]
  <2>1. \A i \in 1 .. n : i = n \/ i \in 1 .. n - 1
    OBVIOUS
  <2> QED
    BY <1>5, <1>6, <2>1
<1>8. G = P
  BY <1>3, <1>5, <1>7, SameLines
<1> QED
  BY <1>2, <1>8 DEF G

LEMMA AppendConcat ==
  ASSUME NEW p \in Seq(Chars), NEW q \in Seq(Chars), NEW c \in Chars
  PROVE  /\ p \o Append(q, c) = Append(p \o q, c)
         /\ Append(p, c) = p \o <<c>> /\ Append(p, c) \in Seq(Chars) /\ <<c>> \in Seq(Chars)
<1>1. <<c>> \in Seq(Chars)
  OBVIOUS
<1>2. p \o q \in Seq(Chars)
  BY ConcatProperties
<1>3. \A s \in Seq(Chars) : Append(s, c) = s \o <<c>>
  BY AppendIsConcat
<1>4. (p \o q) \o <<c>> = p \o (q \o <<c>>)
  BY <1>1, ConcatAssociative
<1>5. Append(p, c) \in Seq(Chars)
  BY AppendProperties
<1> QED
  BY <1>1, <1>2, <1>3, <1>4, <1>5

LEMMA GlueMore ==
  ASSUME NEW P, Written(P), NEW Q, Written(Q), NEW c \in Chars
  PROVE  Glue(P, More(Q, c)) = More(Glue(P, Q), c)
<1>1. PICK n \in Nat : n = Len(P) /\ n > 0
  BY DEF Written
<1>2. PICK m \in Nat : m = Len(Q) /\ m > 0
  BY DEF Written
<1> DEFINE R == More(Q, c)
           G == Glue(P, Q)
           H == Glue(P, R)
           M == More(G, c)
<1>3. MoreOf(Q, c, R)
  BY MoreIs
<1>4. GlueOf(P, Q, G)
  BY GlueIs
<1> HIDE DEF R, G
<1>5. Written(R) /\ Written(G)
  BY <1>3, <1>4 DEF MoreOf, GlueOf
<1>6. GlueOf(P, R, H)
  BY <1>5, GlueIs
<1>7. MoreOf(G, c, M)
  BY <1>5, MoreIs
<1> HIDE DEF H, M
<1>8. Written(H) /\ Written(M)
  BY <1>6, <1>7 DEF MoreOf, GlueOf
<1>9. /\ Len(G) = n + m - 1 /\ \A i \in 1 .. n - 1 : G[i] = P[i]
      /\ G[n] = P[n] \o Q[1] /\ \A i \in 2 .. m : G[n + i - 1] = Q[i]
  BY <1>1, <1>2, <1>4 DEF GlueOf
<1>10. CASE c = NL
  <2>1. Len(R) = m + 1 /\ R[m + 1] = <<>> /\ \A i \in 1 .. m : R[i] = Q[i]
    BY <1>2, <1>3, <1>10 DEF MoreOf
  <2>2. R[1] = Q[1]
    BY <1>2, <2>1
  <2>3. /\ Len(H) = n + m /\ \A i \in 1 .. n - 1 : H[i] = P[i]
        /\ H[n] = P[n] \o Q[1] /\ \A i \in 2 .. m + 1 : H[n + i - 1] = R[i]
    BY <1>1, <1>2, <1>6, <2>1, <2>2 DEF GlueOf
  <2>4. Len(M) = n + m /\ M[n + m] = <<>> /\ \A i \in 1 .. n + m - 1 : M[i] = G[i]
    <3>1. (n + m - 1) + 1 = n + m
      OBVIOUS
    <3> QED
      BY <1>1, <1>2, <1>7, <1>9, <1>10, <3>1 DEF MoreOf
  <2>5. ASSUME NEW i \in 1 .. n + m PROVE H[i] = M[i]
    <3>1. CASE i \in 1 .. n - 1
      <4>1. i \in 1 .. n + m - 1
        BY <1>2, <3>1
      <4> QED
        BY <1>9, <2>3, <2>4, <3>1, <4>1
    <3>2. CASE i = n
      <4>1. i \in 1 .. n + m - 1
        BY <1>1, <1>2, <3>2
      <4> QED
        BY <1>9, <2>3, <2>4, <3>2, <4>1
    <3>3. CASE i = n + m
      <4>1. m + 1 \in 2 .. m + 1 /\ n + (m + 1) - 1 = n + m
        BY <1>2
      <4>2. H[n + (m + 1) - 1] = R[m + 1]
        BY <2>3, <4>1
      <4> QED
        BY <2>1, <2>4, <3>3, <4>1, <4>2
    <3>4. CASE i > n /\ i < n + m
      <4>1. PICK j \in 2 .. m : i = n + j - 1
        <5>1. i - n + 1 \in 2 .. m /\ i = n + (i - n + 1) - 1
          BY <1>1, <3>4
        <5> QED
          BY <5>1
      <4>2. i \in 1 .. n + m - 1 /\ j \in 2 .. m + 1 /\ j \in 1 .. m
        BY <1>1, <3>4
      <4>3. H[i] = R[j] /\ G[i] = Q[j] /\ R[j] = Q[j] /\ M[i] = G[i]
        BY <1>9, <2>1, <2>3, <2>4, <4>1, <4>2
      <4> QED
        BY <4>3
    <3> QED
      BY <1>1, <1>2, <3>1, <3>2, <3>3, <3>4
  <2>6. H = M
    BY <1>8, <2>3, <2>4, <2>5, SameLines
  <2> QED
    BY <2>6 DEF H, M, R, G
<1>11. CASE c # NL
  <2>1. Len(R) = m /\ R[m] = Append(Q[m], c) /\ \A i \in 1 .. m - 1 : R[i] = Q[i]
    BY <1>2, <1>3, <1>11 DEF MoreOf
  <2>2. /\ Len(H) = n + m - 1 /\ \A i \in 1 .. n - 1 : H[i] = P[i]
        /\ H[n] = P[n] \o R[1] /\ \A i \in 2 .. m : H[n + i - 1] = R[i]
    BY <1>1, <1>2, <1>6, <2>1 DEF GlueOf
  <2>3. Len(M) = n + m - 1 /\ M[n + m - 1] = Append(G[n + m - 1], c) /\ \A i \in 1 .. n + m - 2 : M[i] = G[i]
    <3>1. (n + m - 1) - 1 = n + m - 2
      OBVIOUS
    <3> QED
      BY <1>1, <1>2, <1>7, <1>9, <1>11, <3>1 DEF MoreOf
  <2>4. ASSUME NEW i \in 1 .. n - 1 PROVE H[i] = M[i]
    <3>1. i \in 1 .. n + m - 2
      BY <1>2
    <3> QED
      BY <1>9, <2>2, <2>3, <3>1
  <2>5. H[n] = M[n]
    <3>1. P[n] \in Seq(Chars) /\ Q[1] \in Seq(Chars)
      BY <1>1, GlueLine
    <3>2. CASE m = 1
      <4>1. R[1] = Append(Q[1], c) /\ n + m - 1 = n
        BY <2>1, <3>2
      <4>2. P[n] \o Append(Q[1], c) = Append(P[n] \o Q[1], c)
        BY <3>1, AppendConcat
      <4>3. H[n] = Append(P[n] \o Q[1], c)
        BY <2>2, <4>1, <4>2
      <4> QED
        BY <1>9, <2>3, <4>1, <4>3
    <3>3. CASE m # 1
      <4>1. 1 \in 1 .. m - 1 /\ n \in 1 .. n + m - 2
        BY <1>1, <1>2, <3>3
      <4> QED
        BY <1>9, <2>1, <2>2, <2>3, <4>1
    <3> QED
      BY <3>2, <3>3
  <2>6. ASSUME NEW j \in 2 .. m PROVE H[n + j - 1] = M[n + j - 1]
    <3>1. H[n + j - 1] = R[j] /\ G[n + j - 1] = Q[j]
      BY <1>9, <2>2
    <3>2. CASE j = m
      BY <2>1, <2>3, <3>1, <3>2
    <3>3. CASE j # m
      <4>1. j \in 1 .. m - 1 /\ n + j - 1 \in 1 .. n + m - 2
        BY <1>1, <3>3
      <4> QED
        BY <2>1, <2>3, <3>1, <4>1
    <3> QED
      BY <3>2, <3>3
  <2>7. ASSUME NEW i \in 1 .. n + m - 1 PROVE H[i] = M[i]
    <3>1. i \in 1 .. n - 1 \/ i = n \/ i - n + 1 \in 2 .. m
      BY <1>1, <1>2
    <3>2. n + (i - n + 1) - 1 = i
      BY <1>1
    <3> QED
      BY <2>4, <2>5, <2>6, <3>1, <3>2
  <2>8. H = M
    BY <1>8, <2>2, <2>3, <2>7, SameLines
  <2> QED
    BY <2>8 DEF H, M, R, G
<1> QED
  BY <1>10, <1>11

LEMMA LinesGlue ==
  ASSUME NEW s \in Seq(Chars), NEW t \in Seq(Chars)
  PROVE  LinesOf(s \o t) = Glue(LinesOf(s), LinesOf(t))
<1> DEFINE Ok(r) == LinesOf(s \o r) = Glue(LinesOf(s), LinesOf(r))
           I == {n \in Nat : \E r \in Seq(Chars) : Len(r) = n /\ ~Ok(r)}
<1>1. I = {}
  <2> SUFFICES ASSUME I # {} PROVE FALSE
    OBVIOUS
  <2>1. PICK n \in I : \A i \in I : n <= i
    BY SomeLeast
  <2>2. PICK r \in Seq(Chars) : Len(r) = n /\ ~Ok(r) /\ n \in Nat
    OBVIOUS
  <2>3. CASE n = 0
    <3> HIDE DEF I
    <3>1. r = <<>>
      BY <2>2, <2>3
    <3>2. LinesOf(r) = NoLines /\ s \o r = s
      BY <3>1, KeyNames, LinesStep, ConcatEmptySeq DEF NoLines
    <3>3. Glue(LinesOf(s), NoLines) = LinesOf(s)
      BY LinesWritten, GlueNone
    <3> QED
      BY <2>2, <3>2, <3>3
  <2>4. CASE n # 0
    <3>1. PICK q \in Seq(Chars), c \in Chars : r = Append(q, c) /\ Len(q) = n - 1
      BY <2>2, <2>4, TextEnds
    <3>2. n - 1 \in Nat /\ ~(n <= n - 1)
      BY <2>2, <2>4
    <3>3. n - 1 \notin I
      BY <2>1, <3>2
    <3>4. Ok(q)
      BY <3>1, <3>2, <3>3
    <3> HIDE DEF I
    <3>5. s \o q \in Seq(Chars) /\ s \o r = Append(s \o q, c)
      BY <3>1, ConcatProperties, AppendConcat
    <3>6. LinesOf(s \o r) = More(LinesOf(s \o q), c) /\ LinesOf(r) = More(LinesOf(q), c)
      BY <3>1, <3>5, LinesStep
    <3>7. Glue(LinesOf(s), More(LinesOf(q), c)) = More(Glue(LinesOf(s), LinesOf(q)), c)
      BY LinesWritten, GlueMore
    <3>8. Ok(r)
      BY <3>4, <3>6, <3>7
    <3> QED
      BY <2>2, <3>8
  <2> QED
    BY <2>3, <2>4
<1>2. Len(t) \in Nat
  OBVIOUS
<1> QED
  BY <1>1, <1>2

-----------------------------------------------------------------------------
(* A character more or less where two lists are joined.                    *)

\* The list ls with l for its line n.
Changes(ls, n, l, ms) == n \in 1 .. Len(ls) /\ ms = [ls EXCEPT ![n] = l]

LEMMA GlueLast ==
  ASSUME NEW P, Written(P), NEW R, Written(R), NEW Q, Written(Q),
         Len(R) = Len(P), \A i \in 1 .. Len(P) - 1 : R[i] = P[i]
  PROVE  Changes(Glue(P, Q), Len(P), R[Len(P)] \o Q[1], Glue(R, Q))
<1>1. PICK n \in Nat : n = Len(P) /\ n > 0
  BY DEF Written
<1>2. PICK m \in Nat : m = Len(Q) /\ m > 0
  BY DEF Written
<1> DEFINE G == Glue(P, Q)
           H == Glue(R, Q)
           l == R[n] \o Q[1]
           E == [G EXCEPT ![n] = l]
<1>3. GlueOf(P, Q, G) /\ GlueOf(R, Q, H)
  BY GlueIs
<1> HIDE DEF G, H
<1>4. Written(G) /\ Written(H) /\ Len(G) = n + m - 1 /\ Len(H) = n + m - 1 /\ H[n] = l
  BY <1>1, <1>2, <1>3 DEF GlueOf
<1>5. l \in Seq(Chars)
  BY <1>1, GlueLine, ConcatProperties
<1>6. n \in 1 .. Len(G)
  BY <1>1, <1>2, <1>4
<1> HIDE DEF l
<1>7. E \in Seq(Seq(Chars)) /\ Len(E) = n + m - 1 /\ \A i \in 1 .. n + m - 1 : E[i] = IF i = n THEN l ELSE G[i]
  <2>1. G \in Seq(Seq(Chars))
    BY <1>4 DEF Written
  <2>2. /\ E \in Seq(Seq(Chars)) /\ Len(E) = Len(G)
        /\ \A i \in 1 .. Len(G) : E[i] = IF i = n THEN l ELSE G[i]
    BY <1>5, <1>6, <2>1, ExceptSeq
  <2> QED
    BY <1>4, <2>2
<1>8. ASSUME NEW i \in 1 .. n + m - 1, i # n PROVE H[i] = G[i]
  <2>1. CASE i < n
    <3>1. i \in 1 .. n - 1
      BY <1>1, <2>1
    <3> QED
      BY <1>1, <1>3, <3>1 DEF GlueOf
  <2>2. CASE i > n
    <3>1. PICK j \in 2 .. m : i = n + j - 1
      <4>1. i - n + 1 \in 2 .. m /\ i = n + (i - n + 1) - 1
        BY <1>1, <2>2
      <4> QED
        BY <4>1
    <3> QED
      BY <1>1, <1>2, <1>3, <3>1 DEF GlueOf
  <2> QED
    BY <1>1, <1>8, <2>1, <2>2
<1> HIDE DEF E
<1>9. \A i \in 1 .. n + m - 1 : H[i] = E[i]
  BY <1>4, <1>7, <1>8
<1>10. Written(E)
  BY <1>4, <1>7 DEF Written
<1>11. H = E
  BY <1>4, <1>7, <1>9, <1>10, SameLines
<1> QED
  BY <1>1, <1>6, <1>11 DEF Changes, G, H, E, l

\* A character that is no line end changes one line.
CharGlued(P, Q, c, G, H) ==
  LET n == Len(P)
  IN  /\ Len(G) = Len(H) /\ n \in 1 .. Len(G)
      /\ G[n] = P[n] \o Q[1] /\ H[n] = Append(P[n], c) \o Q[1]
      /\ H = [G EXCEPT ![n] = Append(P[n], c) \o Q[1]]
      /\ G = [H EXCEPT ![n] = P[n] \o Q[1]]

LEMMA GlueChar ==
  ASSUME NEW P, Written(P), NEW Q, Written(Q), NEW c \in Chars, c # NL
  PROVE  CharGlued(P, Q, c, Glue(P, Q), Glue(More(P, c), Q))
<1> DEFINE n == Len(P)
           R == More(P, c)
           G == Glue(P, Q)
           H == Glue(R, Q)
<1>1. MoreOf(P, c, R)
  BY MoreIs
<1> HIDE DEF R
<1>2. Written(R) /\ Len(R) = n /\ R[n] = Append(P[n], c) /\ \A i \in 1 .. n - 1 : R[i] = P[i]
  BY <1>1 DEF MoreOf
<1>3. Changes(G, n, R[n] \o Q[1], H)
  BY <1>2, GlueLast
<1>4. Changes(H, n, P[n] \o Q[1], G)
  BY <1>2, GlueLast
<1>5. GlueOf(P, Q, G) /\ GlueOf(R, Q, H)
  BY <1>2, GlueIs
<1> HIDE DEF G, H
<1>6. Len(G) = Len(H) /\ G[n] = P[n] \o Q[1] /\ H[n] = Append(P[n], c) \o Q[1]
  BY <1>2, <1>5 DEF GlueOf
<1>7. n \in 1 .. Len(G) /\ H = [G EXCEPT ![n] = Append(P[n], c) \o Q[1]]
  BY <1>2, <1>3 DEF Changes
<1>8. G = [H EXCEPT ![n] = P[n] \o Q[1]]
  BY <1>4 DEF Changes
<1> QED
  BY <1>6, <1>7, <1>8 DEF CharGlued, G, H, R

\* ls is made of three pieces, of a, b and d lines.
Pieces(A, B, C, a, b, d, ls) ==
  /\ {A, B, C} \subseteq Seq(Seq(Chars)) /\ {a, b, d} \subseteq Nat
  /\ a = Len(A) /\ b = Len(B) /\ d = Len(C)
  /\ Written(ls) /\ Len(ls) = a + b + d
  /\ \A i \in 1 .. a : ls[i] = A[i]
  /\ \A i \in 1 .. b : ls[a + i] = B[i]
  /\ \A i \in 1 .. d : ls[a + b + i] = C[i]

LEMMA ThreePieces ==
  ASSUME NEW A, NEW B, NEW C, NEW a, NEW b, NEW d, NEW ls, Pieces(A, B, C, a, b, d, ls)
  PROVE  ls = A \o B \o C
<1>0. /\ A \in Seq(Seq(Chars)) /\ B \in Seq(Seq(Chars)) /\ C \in Seq(Seq(Chars))
      /\ a \in Nat /\ b \in Nat /\ d \in Nat /\ a = Len(A) /\ b = Len(B) /\ d = Len(C)
      /\ Written(ls) /\ Len(ls) = a + b + d
      /\ \A i \in 1 .. a : ls[i] = A[i]
      /\ \A i \in 1 .. b : ls[a + i] = B[i]
      /\ \A i \in 1 .. d : ls[a + b + i] = C[i]
  BY DEF Pieces
<1> DEFINE D == A \o B
           E == D \o C
<1>1. D \in Seq(Seq(Chars)) /\ Len(D) = a + b
      /\ \A i \in 1 .. a + b : D[i] = IF i <= a THEN A[i] ELSE B[i - a]
  BY <1>0, ConcatProperties
<1> HIDE DEF D
<1>2. E \in Seq(Seq(Chars)) /\ Len(E) = (a + b) + d
      /\ \A i \in 1 .. (a + b) + d : E[i] = IF i <= a + b THEN D[i] ELSE C[i - (a + b)]
  <2>1. /\ E \in Seq(Seq(Chars)) /\ Len(E) = Len(D) + Len(C)
        /\ \A i \in 1 .. Len(D) + Len(C) : E[i] = IF i <= Len(D) THEN D[i] ELSE C[i - Len(D)]
    BY <1>0, <1>1, ConcatProperties
  <2> HIDE DEF E
  <2> QED
    BY <1>0, <1>1, <2>1
<1> HIDE DEF E
<1>3. ASSUME NEW i \in 1 .. a + b + d PROVE ls[i] = E[i]
  <2>1. CASE i <= a
    <3>1. i \in 1 .. a /\ i \in 1 .. a + b /\ i <= a + b
      BY <1>0, <2>1
    <3> QED
      BY <1>0, <1>1, <1>2, <2>1, <3>1
  <2>2. CASE ~(i <= a) /\ i <= a + b
    <3>1. i \in 1 .. a + b /\ i - a \in 1 .. b /\ a + (i - a) = i
      BY <1>0, <2>2
    <3>2. E[i] = B[i - a]
      BY <1>0, <1>1, <1>2, <2>2, <3>1
    <3>3. ls[a + (i - a)] = B[i - a]
      BY <1>0, <3>1
    <3> QED
      BY <3>1, <3>2, <3>3
  <2>3. CASE ~(i <= a + b)
    <3>1. i - (a + b) \in 1 .. d /\ a + b + (i - (a + b)) = i
      BY <1>0, <2>3
    <3>2. E[i] = C[i - (a + b)]
      BY <1>0, <1>2, <2>3
    <3>3. ls[a + b + (i - (a + b))] = C[i - (a + b)]
      BY <1>0, <3>1
    <3> QED
      BY <3>1, <3>2, <3>3
  <2> QED
    BY <1>0, <2>1, <2>2, <2>3
<1>4. ls \in Seq(Seq(Chars)) /\ Len(ls) = Len(E)
  BY <1>0, <1>2 DEF Written
<1>5. ls = E
  BY <1>2, <1>3, <1>4, SeqEqual
<1> QED
  BY <1>5 DEF D, E

\* A line end makes two lines of one.
BreakGlued(P, Q, G, H) ==
  LET n == Len(P)
  IN  /\ Len(H) = Len(G) + 1 /\ n \in 1 .. Len(G)
      /\ G[n] = P[n] \o Q[1] /\ H[n] = P[n] /\ H[n + 1] = Q[1]
      /\ H = SubSeq(G, 1, n - 1) \o <<P[n], Q[1]>> \o SubSeq(G, n + 1, Len(G))
      /\ G = SubSeq(H, 1, n - 1) \o <<P[n] \o Q[1]>> \o SubSeq(H, n + 2, Len(H))

LEMMA GlueBreak ==
  ASSUME NEW P, Written(P), NEW Q, Written(Q)
  PROVE  BreakGlued(P, Q, Glue(P, Q), Glue(More(P, NL), Q))
<1>1. PICK n \in Nat : n = Len(P) /\ n > 0
  BY DEF Written
<1>2. PICK m \in Nat : m = Len(Q) /\ m > 0
  BY DEF Written
<1> DEFINE R == More(P, NL)
           G == Glue(P, Q)
           H == Glue(R, Q)
<1>3. MoreOf(P, NL, R)
  BY MoreIs, KeyNames
<1> HIDE DEF R
<1>4. Written(R) /\ Len(R) = n + 1 /\ R[n + 1] = <<>> /\ \A i \in 1 .. n : R[i] = P[i]
  BY <1>1, <1>3 DEF MoreOf
<1>5. GlueOf(P, Q, G) /\ GlueOf(R, Q, H)
  BY <1>4, GlueIs
<1> HIDE DEF G, H
<1>6. P[n] \in Seq(Chars) /\ Q[1] \in Seq(Chars) /\ P[n] \o Q[1] \in Seq(Chars)
  BY <1>1, GlueLine, ConcatProperties
<1>7. /\ Written(G) /\ Len(G) = n + m - 1 /\ G[n] = P[n] \o Q[1]
      /\ \A i \in 1 .. n - 1 : G[i] = P[i]
      /\ \A i \in 2 .. m : G[n + i - 1] = Q[i]
  BY <1>1, <1>2, <1>5 DEF GlueOf
<1>8. /\ Written(H) /\ Len(H) = n + m
      /\ \A i \in 1 .. n : H[i] = R[i]
      /\ H[n + 1] = R[n + 1] \o Q[1]
      /\ \A i \in 2 .. m : H[(n + 1) + i - 1] = Q[i]
  <2>1. (n + 1) + m - 1 = n + m /\ (n + 1) - 1 = n
    BY <1>2
  <2> QED
    BY <1>2, <1>4, <1>5, <2>1 DEF GlueOf
<1>9. /\ \A i \in 1 .. n : H[i] = P[i]
      /\ H[n] = P[n] /\ H[n + 1] = Q[1]
      /\ \A i \in 2 .. m : H[n + i] = Q[i]
  <2>1. n \in 1 .. n
    BY <1>1
  <2>2. H[n + 1] = Q[1]
    BY <1>4, <1>6, <1>8, ConcatEmptySeq
  <2>3. \A i \in 2 .. m : (n + 1) + i - 1 = n + i
    OBVIOUS
  <2>4. \A i \in 2 .. m : H[n + i] = Q[i]
    BY <1>8, <2>3
  <2> QED
    BY <1>4, <1>8, <2>1, <2>2, <2>4
<1>10. H = SubSeq(G, 1, n - 1) \o <<P[n], Q[1]>> \o SubSeq(G, n + 1, Len(G))
  <2> DEFINE A == SubSeq(G, 1, n - 1)
             B == <<P[n], Q[1]>>
             C == SubSeq(G, n + 1, n + m - 1)
  <2>1. \A i \in 1 .. n + m - 1 : G[i] \in Seq(Chars)
    BY <1>7, ElementOfSeq DEF Written
  <2>2. \A i \in 1 .. n - 1 : G[i] \in Seq(Chars)
    BY <1>2, <2>1
  <2>3. A \in Seq(Seq(Chars)) /\ Len(A) = n - 1 /\ \A i \in 1 .. n - 1 : A[i] = G[i]
    <3>1. Len(A) = IF 1 <= n - 1 THEN (n - 1) - 1 + 1 ELSE 0
      BY <1>1, <2>2, SubSeqProperties
    <3>2. \A i \in 1 .. (n - 1) - 1 + 1 : A[i] = G[1 + i - 1]
      BY <1>1, <2>2, SubSeqProperties
    <3>3. \A i \in 1 .. n - 1 : i \in 1 .. (n - 1) - 1 + 1 /\ 1 + i - 1 = i
      BY <1>1
    <3>4. A \in Seq(Seq(Chars))
      BY <1>1, <2>2, SubSeqProperties
    <3>5. Len(A) = n - 1
      BY <1>1, <3>1
    <3> HIDE DEF A
    <3> QED
      BY <3>2, <3>3, <3>4, <3>5
  <2>4. B \in Seq(Seq(Chars)) /\ Len(B) = 2 /\ B[1] = P[n] /\ B[2] = Q[1]
    BY <1>6
  <2>5. \A i \in n + 1 .. n + m - 1 : G[i] \in Seq(Chars)
    BY <1>1, <2>1
  <2>6. C \in Seq(Seq(Chars)) /\ Len(C) = m - 1 /\ \A i \in 1 .. m - 1 : C[i] = G[n + i]
    <3>1. Len(C) = IF n + 1 <= n + m - 1 THEN (n + m - 1) - (n + 1) + 1 ELSE 0
      BY <1>1, <1>2, <2>5, SubSeqProperties
    <3>2. \A i \in 1 .. (n + m - 1) - (n + 1) + 1 : C[i] = G[(n + 1) + i - 1]
      BY <1>1, <1>2, <2>5, SubSeqProperties
    <3>3. \A i \in 1 .. m - 1 : i \in 1 .. (n + m - 1) - (n + 1) + 1 /\ (n + 1) + i - 1 = n + i
      BY <1>1, <1>2
    <3>4. C \in Seq(Seq(Chars))
      BY <1>1, <1>2, <2>5, SubSeqProperties
    <3>5. Len(C) = m - 1
      BY <1>1, <1>2, <3>1
    <3> HIDE DEF C
    <3> QED
      BY <3>2, <3>3, <3>4, <3>5
  <2> HIDE DEF A, B, C
  <2>7. n - 1 \in Nat /\ m - 1 \in Nat /\ (n - 1) + 2 + (m - 1) = n + m
    BY <1>1, <1>2
  <2>8. \A i \in 1 .. n - 1 : H[i] = A[i]
    BY <1>7, <1>9, <2>3
  <2>9. ASSUME NEW i \in 1 .. 2 PROVE H[(n - 1) + i] = B[i]
    <3>1. (n - 1) + 1 = n /\ (n - 1) + 2 = n + 1 /\ (i = 1 \/ i = 2)
      BY <1>1
    <3> QED
      BY <1>9, <2>4, <3>1
  <2>10. ASSUME NEW i \in 1 .. m - 1 PROVE H[(n - 1) + 2 + i] = C[i]
    <3>1. i + 1 \in 2 .. m /\ n + (i + 1) - 1 = n + i /\ (n - 1) + 2 + i = n + (i + 1)
      BY <1>1, <1>2
    <3>2. G[n + (i + 1) - 1] = Q[i + 1]
      BY <1>7, <3>1
    <3>3. H[n + (i + 1)] = Q[i + 1]
      BY <1>9, <3>1
    <3>4. C[i] = G[n + i]
      BY <2>6
    <3> QED
      BY <3>1, <3>2, <3>3, <3>4
  <2>11. PICK a \in Nat, b \in Nat, d \in Nat : a = n - 1 /\ b = 2 /\ d = m - 1
    BY <2>7
  <2>12. a = Len(A) /\ b = Len(B) /\ d = Len(C) /\ Written(H) /\ Len(H) = a + b + d
    BY <1>8, <2>3, <2>4, <2>6, <2>7, <2>11
  <2>13. /\ \A i \in 1 .. a : H[i] = A[i]
         /\ \A i \in 1 .. b : H[a + i] = B[i]
         /\ \A i \in 1 .. d : H[a + b + i] = C[i]
    BY <2>8, <2>9, <2>10, <2>11
  <2>14. Pieces(A, B, C, a, b, d, H)
    BY <2>3, <2>4, <2>6, <2>12, <2>13 DEF Pieces
  <2>15. H = A \o B \o C
    BY <2>14, ThreePieces
  <2> QED
    BY <1>7, <2>15 DEF A, B, C
<1>11. G = SubSeq(H, 1, n - 1) \o <<P[n] \o Q[1]>> \o SubSeq(H, n + 2, Len(H))
  <2> DEFINE A == SubSeq(H, 1, n - 1)
             B == <<P[n] \o Q[1]>>
             C == SubSeq(H, n + 2, n + m)
  <2>1. \A i \in 1 .. n + m : H[i] \in Seq(Chars)
    BY <1>8, ElementOfSeq DEF Written
  <2>2. \A i \in 1 .. n - 1 : H[i] \in Seq(Chars)
    BY <1>1, <1>2, <2>1
  <2>3. A \in Seq(Seq(Chars)) /\ Len(A) = n - 1 /\ \A i \in 1 .. n - 1 : A[i] = H[i]
    <3>1. Len(A) = IF 1 <= n - 1 THEN (n - 1) - 1 + 1 ELSE 0
      BY <1>1, <2>2, SubSeqProperties
    <3>2. \A i \in 1 .. (n - 1) - 1 + 1 : A[i] = H[1 + i - 1]
      BY <1>1, <2>2, SubSeqProperties
    <3>3. \A i \in 1 .. n - 1 : i \in 1 .. (n - 1) - 1 + 1 /\ 1 + i - 1 = i
      BY <1>1
    <3>4. A \in Seq(Seq(Chars))
      BY <1>1, <2>2, SubSeqProperties
    <3>5. Len(A) = n - 1
      BY <1>1, <3>1
    <3> HIDE DEF A
    <3> QED
      BY <3>2, <3>3, <3>4, <3>5
  <2>4. B \in Seq(Seq(Chars)) /\ Len(B) = 1 /\ B[1] = P[n] \o Q[1]
    <3>1. \A l \in Seq(Chars) : <<l>> \in Seq(Seq(Chars)) /\ Len(<<l>>) = 1 /\ <<l>>[1] = l
      OBVIOUS
    <3> QED
      BY <1>6, <3>1
  <2>5. \A i \in n + 2 .. n + m : H[i] \in Seq(Chars)
    BY <1>1, <2>1
  <2>6. C \in Seq(Seq(Chars)) /\ Len(C) = m - 1 /\ \A i \in 1 .. m - 1 : C[i] = H[n + 1 + i]
    <3>1. Len(C) = IF n + 2 <= n + m THEN (n + m) - (n + 2) + 1 ELSE 0
      BY <1>1, <1>2, <2>5, SubSeqProperties
    <3>2. \A i \in 1 .. (n + m) - (n + 2) + 1 : C[i] = H[(n + 2) + i - 1]
      BY <1>1, <1>2, <2>5, SubSeqProperties
    <3>3. \A i \in 1 .. m - 1 : i \in 1 .. (n + m) - (n + 2) + 1 /\ (n + 2) + i - 1 = n + 1 + i
      BY <1>1, <1>2
    <3>4. C \in Seq(Seq(Chars))
      BY <1>1, <1>2, <2>5, SubSeqProperties
    <3>5. Len(C) = m - 1
      BY <1>1, <1>2, <3>1
    <3> HIDE DEF C
    <3> QED
      BY <3>2, <3>3, <3>4, <3>5
  <2> HIDE DEF A, B, C
  <2>7. n - 1 \in Nat /\ m - 1 \in Nat /\ (n - 1) + 1 + (m - 1) = n + m - 1
    BY <1>1, <1>2
  <2>8. \A i \in 1 .. n - 1 : G[i] = A[i]
    BY <1>7, <1>9, <2>3
  <2>9. ASSUME NEW i \in 1 .. 1 PROVE G[(n - 1) + i] = B[i]
    <3>1. (n - 1) + 1 = n /\ i = 1
      BY <1>1
    <3> QED
      BY <1>7, <2>4, <3>1
  <2>10. ASSUME NEW i \in 1 .. m - 1 PROVE G[(n - 1) + 1 + i] = C[i]
    <3>1. i + 1 \in 2 .. m /\ n + (i + 1) - 1 = (n - 1) + 1 + i /\ n + 1 + i = n + (i + 1)
      BY <1>1, <1>2
    <3>2. G[n + (i + 1) - 1] = Q[i + 1]
      BY <1>7, <3>1
    <3>3. H[n + (i + 1)] = Q[i + 1]
      BY <1>9, <3>1
    <3>4. C[i] = H[n + 1 + i]
      BY <2>6
    <3> QED
      BY <3>1, <3>2, <3>3, <3>4
  <2>11. PICK a \in Nat, b \in Nat, d \in Nat : a = n - 1 /\ b = 1 /\ d = m - 1
    BY <2>7
  <2>12. a = Len(A) /\ b = Len(B) /\ d = Len(C) /\ Written(G) /\ Len(G) = a + b + d
    BY <1>7, <2>3, <2>4, <2>6, <2>7, <2>11
  <2>13. /\ \A i \in 1 .. a : G[i] = A[i]
         /\ \A i \in 1 .. b : G[a + i] = B[i]
         /\ \A i \in 1 .. d : G[a + b + i] = C[i]
    BY <2>8, <2>9, <2>10, <2>11
  <2>14. Pieces(A, B, C, a, b, d, G)
    BY <2>3, <2>4, <2>6, <2>12, <2>13 DEF Pieces
  <2>15. G = A \o B \o C
    BY <2>14, ThreePieces
  <2> QED
    BY <1>8, <2>15 DEF A, B, C
<1>12. Len(H) = Len(G) + 1 /\ n \in 1 .. Len(G)
  BY <1>1, <1>2, <1>7, <1>8
<1> QED
  BY <1>1, <1>7, <1>9, <1>10, <1>11, <1>12 DEF BreakGlued, G, H, R

-----------------------------------------------------------------------------
(* The same of the characters of one line.                                 *)

LEMMA TwoPieces ==
  ASSUME NEW p \in Seq(Chars), NEW q \in Seq(Chars)
  PROVE  /\ p \o q \in Seq(Chars) /\ Len(p \o q) = Len(p) + Len(q)
         /\ SubSeq(p \o q, 1, Len(p)) = p
         /\ SubSeq(p \o q, Len(p) + 1, Len(p \o q)) = q
<1> DEFINE s == p \o q
<1>1. PICK n \in Nat, m \in Nat : n = Len(p) /\ m = Len(q)
  OBVIOUS
<1>2. /\ s \in Seq(Chars) /\ Len(s) = n + m
      /\ \A i \in 1 .. n + m : s[i] = IF i <= n THEN p[i] ELSE q[i - n]
  BY <1>1, ConcatProperties
<1> HIDE DEF s
<1>3. \A i \in 1 .. n + m : s[i] \in Chars
  BY <1>2, ElementOfSeq
<1>4. SubSeq(s, 1, n) = p
  <2> DEFINE t == SubSeq(s, 1, n)
  <2>1. \A i \in 1 .. n : s[i] \in Chars
    BY <1>3
  <2>2. t \in Seq(Chars) /\ Len(t) = n /\ \A i \in 1 .. n : t[i] = s[i]
    BY <2>1, SubSeqProperties
  <2> HIDE DEF t
  <2>3. \A i \in 1 .. n : t[i] = p[i]
    BY <1>2, <2>2
  <2>4. t = p
    BY <1>1, <2>2, <2>3, SeqEqual
  <2> QED
    BY <2>4 DEF t
<1>5. SubSeq(s, n + 1, n + m) = q
  <2> DEFINE t == SubSeq(s, n + 1, n + m)
  <2>1. \A i \in n + 1 .. n + m : s[i] \in Chars
    BY <1>3
  <2>2. /\ t \in Seq(Chars) /\ Len(t) = IF n + 1 <= n + m THEN (n + m) - (n + 1) + 1 ELSE 0
        /\ \A i \in 1 .. (n + m) - (n + 1) + 1 : t[i] = s[(n + 1) + i - 1]
    BY <2>1, SubSeqProperties
  <2> HIDE DEF t
  <2>3. Len(t) = m
    BY <2>2
  <2>4. ASSUME NEW i \in 1 .. m PROVE t[i] = q[i]
    <3>1. i \in 1 .. (n + m) - (n + 1) + 1 /\ (n + 1) + i - 1 = n + i /\ n + i \in 1 .. n + m
          /\ ~(n + i <= n) /\ (n + i) - n = i
      OBVIOUS
    <3>2. t[i] = s[n + i]
      BY <2>2, <3>1
    <3> QED
      BY <1>2, <3>1, <3>2
  <2>5. t = q
    BY <1>1, <2>2, <2>3, <2>4, SeqEqual
  <2> QED
    BY <2>5 DEF t
<1> QED
  BY <1>1, <1>2, <1>4, <1>5 DEF s

\* A character put in between, and taken out again.
LEMMA CharBetween ==
  ASSUME NEW p \in Seq(Chars), NEW q \in Seq(Chars), NEW c \in Chars
  PROVE  /\ InsertAt(p \o q, Len(p) + 1, c) = Append(p, c) \o q
         /\ RemoveAt(Append(p, c) \o q, Len(p) + 1) = p \o q
         /\ Len(p) < Len(Append(p, c) \o q)
<1>1. PICK n \in Nat : n = Len(p)
  OBVIOUS
<1>2. /\ p \o <<c>> = Append(p, c) /\ Append(p, c) \in Seq(Chars) /\ <<c>> \in Seq(Chars)
      /\ Len(Append(p, c)) = n + 1
  BY <1>1, AppendConcat, AppendProperties
<1>3. (n + 1) - 1 = n
  OBVIOUS
<1>4. InsertAt(p \o q, n + 1, c) = Append(p, c) \o q
  <2>1. SubSeq(p \o q, 1, n) = p /\ SubSeq(p \o q, n + 1, Len(p \o q)) = q
    BY <1>1, TwoPieces
  <2> QED
    BY <1>2, <1>3, <2>1 DEF InsertAt
<1>5. RemoveAt(Append(p, c) \o q, n + 1) = p \o q
  <2> DEFINE a == Append(p, c)
             s == a \o q
             r == <<c>> \o q
  <2>1. r \in Seq(Chars) /\ s = p \o r
    <3>1. (p \o <<c>>) \o q = p \o (<<c>> \o q)
      BY <1>2, ConcatAssociative
    <3> QED
      BY <1>2, <3>1, ConcatProperties
  <2>2. SubSeq(p \o r, 1, n) = p
    BY <1>1, <2>1, TwoPieces
  <2>3. SubSeq(s, Len(a) + 1, Len(s)) = q
    BY <1>2, TwoPieces
  <2> HIDE DEF s, r
  <2>4. SubSeq(s, 1, (n + 1) - 1) = p /\ SubSeq(s, (n + 1) + 1, Len(s)) = q
    BY <1>2, <1>3, <2>1, <2>2, <2>3
  <2>5. RemoveAt(s, n + 1) = p \o q
    BY <2>4 DEF RemoveAt
  <2> QED
    BY <2>5 DEF s
<1>6. n < Len(Append(p, c) \o q)
  <2>1. Len(Append(p, c) \o q) = (n + 1) + Len(q) /\ Len(q) \in Nat
    <3> DEFINE a == Append(p, c)
    <3>1. a \in Seq(Chars) /\ Len(a) = n + 1
      BY <1>2
    <3> HIDE DEF a
    <3>2. Len(a \o q) = Len(a) + Len(q)
      BY <3>1, TwoPieces
    <3> QED
      BY <3>1, <3>2 DEF a
  <2> QED
    BY <2>1
<1> QED
  BY <1>1, <1>4, <1>5, <1>6

-----------------------------------------------------------------------------
(* The buffer before and behind an offset.                                 *)

Rest(b, k) == [i \in 1 .. b.len - k |-> b.data[k + i - 1]]

\* The lines before offset k and behind it, and all of them.
Pre(b, k) == LinesOf(Flat(b, k))
Post(b, k) == LinesOf(Rest(b, k))
DocOf(b) == LinesOf(Flat(b, b.len))

LEMMA Halves ==
  ASSUME NEW b, BufferOk(b), NEW k \in 0 .. b.len
  PROVE  /\ Flat(b, k) \in Seq(Chars) /\ Len(Flat(b, k)) = k
         /\ \A i \in 1 .. k : Flat(b, k)[i] = b.data[i - 1]
         /\ Rest(b, k) \in Seq(Chars) /\ Len(Rest(b, k)) = b.len - k
         /\ \A i \in 1 .. b.len - k : Rest(b, k)[i] = b.data[k + i - 1]
<1>1. PICK n \in Nat : n = b.len /\ \A i \in 0 .. n - 1 : b.data[i] \in Chars
  BY BufferFields
<1>2. Flat(b, k) \in Seq(Chars) /\ Len(Flat(b, k)) = k /\ \A i \in 1 .. k : Flat(b, k)[i] = b.data[i - 1]
  <2>1. \A i \in 1 .. k : b.data[i - 1] \in Chars
    BY <1>1
  <2>2. k \in Nat
    BY <1>1
  <2> QED
    BY <2>1, <2>2 DEF Flat
<1>3. /\ Rest(b, k) \in Seq(Chars) /\ Len(Rest(b, k)) = n - k
      /\ \A i \in 1 .. n - k : Rest(b, k)[i] = b.data[k + i - 1]
  <2>1. \A i \in 1 .. n - k : b.data[k + i - 1] \in Chars
    BY <1>1
  <2>2. n - k \in Nat
    BY <1>1
  <2>3. Rest(b, k) = [i \in 1 .. n - k |-> b.data[k + i - 1]]
    BY <1>1 DEF Rest
  <2> QED
    BY <2>1, <2>2, <2>3
<1> QED
  BY <1>1, <1>2, <1>3

LEMMA DocGlued ==
  ASSUME NEW b, BufferOk(b), NEW k \in 0 .. b.len
  PROVE  /\ Written(Pre(b, k)) /\ Written(Post(b, k)) /\ Written(DocOf(b))
         /\ DocOf(b) = Glue(Pre(b, k), Post(b, k))
<1> DEFINE n == b.len
           f == Flat(b, n)
           p == Flat(b, k)
           q == Rest(b, k)
           s == p \o q
<1>1. n \in Nat /\ n \in 0 .. n /\ k \in Nat /\ k <= n
  BY BufferFields
<1> HIDE DEF n
<1>2. /\ p \in Seq(Chars) /\ Len(p) = k /\ \A i \in 1 .. k : p[i] = b.data[i - 1]
      /\ q \in Seq(Chars) /\ Len(q) = n - k /\ \A i \in 1 .. n - k : q[i] = b.data[k + i - 1]
  BY Halves DEF n
<1>3. f \in Seq(Chars) /\ Len(f) = n /\ \A i \in 1 .. n : f[i] = b.data[i - 1]
  BY <1>1, Halves DEF n
<1> HIDE DEF f, p, q
<1>4. s \in Seq(Chars) /\ Len(s) = n /\ \A i \in 1 .. n : s[i] = IF i <= k THEN p[i] ELSE q[i - k]
  <2>1. Len(p) + Len(q) = n
    BY <1>1, <1>2
  <2> QED
    BY <1>2, <2>1, ConcatProperties
<1> HIDE DEF s
<1>5. ASSUME NEW i \in 1 .. n PROVE f[i] = s[i]
  <2>1. CASE i <= k
    <3>1. i \in 1 .. k
      BY <2>1
    <3> QED
      BY <1>2, <1>3, <1>4, <2>1, <3>1
  <2>2. CASE ~(i <= k)
    <3>1. i - k \in 1 .. n - k /\ k + (i - k) - 1 = i - 1
      BY <1>1, <2>2
    <3> QED
      BY <1>2, <1>3, <1>4, <2>2, <3>1
  <2> QED
    BY <2>1, <2>2
<1>6. f = s
  BY <1>3, <1>4, <1>5, SeqEqual
<1>7. LinesOf(s) = Glue(LinesOf(p), LinesOf(q))
  BY <1>2, LinesGlue DEF s
<1> QED
  BY <1>2, <1>3, <1>6, <1>7, LinesWritten DEF Pre, Post, DocOf, f, p, q, n

LEMMA PreIs ==
  ASSUME NEW b, BufferOk(b), NEW k \in 0 .. b.len
  PROVE  /\ Row(b, k) \in Nat /\ Len(Pre(b, k)) = Row(b, k) + 1
         /\ Len(Pre(b, k)[Row(b, k) + 1]) = k - line_start(b, k)
<1>1. k \in Nat /\ \A i \in 0 .. k - 1 : b.data[i] \in Chars
  BY BufferFields
<1>2. Spells(b, k, Pre(b, k))
  BY <1>1, LinesSpell DEF Pre
<1> QED
  BY <1>1, <1>2, RowStep DEF Spells

\* Buffers with the same characters before an offset, or behind one.
LEMMA SamePre ==
  ASSUME NEW b, NEW u, NEW k \in Nat, \A i \in 0 .. k - 1 : u.data[i] = b.data[i]
  PROVE  Pre(u, k) = Pre(b, k)
<1>1. \A i \in 1 .. k : i - 1 \in 0 .. k - 1
  OBVIOUS
<1>2. Flat(u, k) = Flat(b, k)
  BY <1>1 DEF Flat
<1> QED
  BY <1>2 DEF Pre

SameRest(b, k, u, m) ==
  /\ u.len - m = b.len - k
  /\ \A i \in 1 .. b.len - k : u.data[m + i - 1] = b.data[k + i - 1]

LEMMA SamePost ==
  ASSUME NEW b, NEW k, NEW u, NEW m, SameRest(b, k, u, m)
  PROVE  Post(u, m) = Post(b, k)
<1>1. Rest(u, m) = Rest(b, k)
  BY DEF Rest, SameRest
<1> QED
  BY <1>1 DEF Post

LEMMA PreStep ==
  ASSUME NEW b, BufferOk(b), NEW k \in Nat, k < b.len
  PROVE  Pre(b, k + 1) = More(Pre(b, k), b.data[k]) /\ b.data[k] \in Chars
<1>1. b.len \in Nat /\ \A i \in 0 .. b.len - 1 : b.data[i] \in Chars
  BY BufferFields
<1>2. k \in 0 .. b.len /\ k + 1 \in 0 .. b.len /\ k \in 0 .. b.len - 1
  BY <1>1
<1> DEFINE p == Flat(b, k)
           c == b.data[k]
           f == Flat(b, k + 1)
           a == Append(p, c)
<1>3. p \in Seq(Chars) /\ Len(p) = k /\ \A i \in 1 .. k : p[i] = b.data[i - 1]
  BY <1>2, Halves
<1>4. f \in Seq(Chars) /\ Len(f) = k + 1 /\ \A i \in 1 .. k + 1 : f[i] = b.data[i - 1]
  BY <1>2, Halves
<1>5. c \in Chars
  BY <1>1, <1>2
<1> HIDE DEF p, f
<1>6. a \in Seq(Chars) /\ Len(a) = k + 1 /\ a[k + 1] = c /\ \A i \in 1 .. k : a[i] = p[i]
  BY <1>3, <1>5, AppendProperties
<1> HIDE DEF a
<1>7. ASSUME NEW i \in 1 .. k + 1 PROVE f[i] = a[i]
  <2>1. CASE i = k + 1
    <3>1. i - 1 = k
      BY <2>1
    <3> QED
      BY <1>4, <1>6, <2>1, <3>1
  <2>2. CASE i # k + 1
    <3>1. i \in 1 .. k
      BY <2>2
    <3> QED
      BY <1>3, <1>4, <1>6, <3>1
  <2> QED
    BY <2>1, <2>2
<1>8. f = a
  BY <1>4, <1>6, <1>7, SeqEqual
<1>9. LinesOf(a) = More(LinesOf(p), c)
  BY <1>3, <1>5, LinesStep DEF a
<1> QED
  BY <1>5, <1>8, <1>9 DEF Pre, p, f

\* eb_insert and eb_erase, cut at the place of the change.
LEMMA InsertedIs ==
  ASSUME NEW b, BufferOk(b), NEW c \in Chars, b.len < EDITBUF_CAPACITY
  PROVE  LET u == eb_insert(b, c)
         IN  /\ BufferOk(u) /\ u.len = b.len + 1 /\ u.cursor = b.cursor + 1
             /\ u.goal_col = b.goal_col /\ u.dirty = b.dirty
             /\ u.data[b.cursor] = c
             /\ Pre(u, b.cursor) = Pre(b, b.cursor)
             /\ Pre(u, b.cursor + 1) = More(Pre(b, b.cursor), c)
             /\ Post(u, b.cursor + 1) = Post(b, b.cursor)
<1> DEFINE data == [i \in Offsets |-> IF i = b.cursor THEN c
                                      ELSE IF i \in b.cursor + 1 .. b.len THEN b.data[i - 1]
                                      ELSE b.data[i]]
           u == eb_insert(b, c)
<1>1. PICK n \in Nat, k \in Nat : n = b.len /\ k = b.cursor /\ k <= n /\ n < EDITBUF_CAPACITY
  BY BufferFields
<1>2. u = [b EXCEPT !.data = data, !.cursor = b.cursor + 1, !.len = b.len + 1]
  <2>1. ~(b.len >= EDITBUF_CAPACITY)
    BY <1>1, BufferSizes
  <2> QED
    BY <2>1 DEF eb_insert, BufferOk, Buffers
<1>3. BufferOk(u)
  BY InsertKeepsBuffer
<1>4. data[k] = c /\ (\A i \in 0 .. k - 1 : data[i] = b.data[i]) /\ \A i \in k + 1 .. n : data[i] = b.data[i - 1]
  <2>1. \A i \in 0 .. n : i \in Offsets
    BY <1>1, BufferSizes DEF Offsets
  <2>2. k \in 0 .. n
    BY <1>1
  <2>3. \A i \in 0 .. k - 1 : i \in 0 .. n /\ i # k /\ i \notin k + 1 .. n
    BY <1>1
  <2>4. \A i \in k + 1 .. n : i \in 0 .. n /\ i # k
    BY <1>1
  <2>5. data[k] = c
    BY <1>1, <2>1, <2>2
  <2>6. \A i \in 0 .. k - 1 : data[i] = b.data[i]
    BY <1>1, <2>1, <2>3
  <2>7. \A i \in k + 1 .. n : data[i] = b.data[i - 1]
    BY <1>1, <2>1, <2>4
  <2> QED
    BY <2>5, <2>6, <2>7
<1> HIDE DEF data
<1>5. /\ u.data = data /\ u.len = n + 1 /\ u.cursor = k + 1
      /\ u.goal_col = b.goal_col /\ u.dirty = b.dirty
  BY <1>1, <1>2 DEF BufferOk, Buffers
<1> HIDE DEF u
<1>6. Pre(u, k) = Pre(b, k)
  BY <1>4, <1>5, SamePre
<1>7. Pre(u, k + 1) = More(Pre(u, k), c)
  <2>1. k < u.len
    BY <1>1, <1>5
  <2>2. Pre(u, k + 1) = More(Pre(u, k), u.data[k])
    BY <1>3, <2>1, PreStep
  <2> QED
    BY <1>4, <1>5, <2>2
<1>8. Post(u, k + 1) = Post(b, k)
  <2>1. PICK m \in Nat : m = k + 1
    BY <1>1
  <2>2. u.len - m = b.len - k
    BY <1>1, <1>5, <2>1
  <2>3. ASSUME NEW i \in 1 .. b.len - k PROVE u.data[m + i - 1] = b.data[k + i - 1]
    <3>1. m + i - 1 \in k + 1 .. n /\ (m + i - 1) - 1 = k + i - 1
      BY <1>1, <2>1
    <3> QED
      BY <1>4, <1>5, <3>1
  <2>4. SameRest(b, k, u, m)
    BY <2>2, <2>3 DEF SameRest
  <2> QED
    BY <2>1, <2>4, SamePost
<1> QED
  BY <1>1, <1>3, <1>4, <1>5, <1>6, <1>7, <1>8 DEF u

LEMMA ErasedIs ==
  ASSUME NEW b, BufferOk(b), NEW at \in Nat, at < b.len, b.cursor <= b.len - 1
  PROVE  LET u == eb_erase(b, at)
         IN  /\ BufferOk(u) /\ u.len = b.len - 1 /\ u.cursor = b.cursor
             /\ u.goal_col = b.goal_col /\ u.dirty = b.dirty
             /\ Pre(u, at) = Pre(b, at) /\ Post(u, at) = Post(b, at + 1)
             /\ \A i \in 0 .. at - 1 : u.data[i] = b.data[i]
<1> DEFINE data == [i \in Offsets |-> IF i \in at .. b.len - 2 THEN b.data[i + 1] ELSE b.data[i]]
           u == eb_erase(b, at)
<1>1. PICK n \in Nat : n = b.len /\ n <= EDITBUF_CAPACITY
  BY BufferFields
<1>2. u = [b EXCEPT !.data = data, !.len = b.len - 1]
  BY DEF eb_erase, BufferOk, Buffers
<1>3. BufferOk(u)
  BY EraseKeepsBuffer
<1>4. (\A i \in 0 .. at - 1 : data[i] = b.data[i]) /\ \A i \in at .. n - 2 : data[i] = b.data[i + 1]
  <2>1. \A i \in 0 .. n - 1 : i \in Offsets
    BY <1>1, BufferSizes DEF Offsets
  <2>2. \A i \in 0 .. at - 1 : i \in 0 .. n - 1 /\ i \notin at .. n - 2
    BY <1>1
  <2>3. \A i \in at .. n - 2 : i \in 0 .. n - 1
    BY <1>1
  <2> QED
    BY <1>1, <2>1, <2>2, <2>3
<1> HIDE DEF data
<1>5. /\ u.data = data /\ u.len = n - 1 /\ u.cursor = b.cursor
      /\ u.goal_col = b.goal_col /\ u.dirty = b.dirty
  BY <1>1, <1>2 DEF BufferOk, Buffers
<1> HIDE DEF u
<1>6. Pre(u, at) = Pre(b, at)
  BY <1>4, <1>5, SamePre
<1>7. Post(u, at) = Post(b, at + 1)
  <2>1. u.len - at = b.len - (at + 1) /\ at + 1 \in Nat
    BY <1>1, <1>5
  <2>2. ASSUME NEW i \in 1 .. b.len - (at + 1) PROVE u.data[at + i - 1] = b.data[(at + 1) + i - 1]
    <3>1. at + i - 1 \in at .. n - 2 /\ (at + i - 1) + 1 = (at + 1) + i - 1
      BY <1>1
    <3> QED
      BY <1>4, <1>5, <3>1
  <2>3. SameRest(b, at + 1, u, at)
    BY <2>1, <2>2 DEF SameRest
  <2> QED
    BY <2>3, SamePost
<1> QED
  BY <1>1, <1>3, <1>4, <1>5, <1>6, <1>7 DEF u

-----------------------------------------------------------------------------
(* Lines and offsets.                                                      *)

\* From an offset to a later one of the same line.
LEMMA SameLine ==
  ASSUME NEW b, NEW i \in Nat, NEW j \in Nat, i <= j, \A k \in i .. j - 1 : b.data[k] # NL
  PROVE  Row(b, j) = Row(b, i) /\ line_start(b, j) = line_start(b, i)
<1>1. Row(b, j) = Row(b, i)
  <2>1. \A k \in 0 .. j - 1 : k \in 0 .. i - 1 \/ k \in i .. j - 1
    OBVIOUS
  <2>2. \A k \in 0 .. i - 1 : k \in 0 .. j - 1
    OBVIOUS
  <2>3. Breaks(b, j) = Breaks(b, i)
    BY <2>1, <2>2 DEF Breaks
  <2> QED
    BY <2>3 DEF Row
<1>2. PICK s : s = line_start(b, i)
  OBVIOUS
<1>3. Starts(b, i, s)
  BY <1>2, StartIs
<1>4. Starts(b, j, s)
  <2>1. s \in 0 .. i /\ (s = 0 \/ b.data[s - 1] = NL) /\ \A k \in s .. i - 1 : b.data[k] # NL
    BY <1>3 DEF Starts
  <2>2. \A k \in s .. j - 1 : k \in s .. i - 1 \/ k \in i .. j - 1
    BY <2>1
  <2>3. s \in 0 .. j
    BY <2>1
  <2> QED
    BY <2>1, <2>2, <2>3 DEF Starts
<1>5. line_start(b, j) = s
  BY <1>4, StartIs, OneStart
<1> QED
  BY <1>1, <1>2, <1>5

\* The length of a line is where it ends.
LEMMA LineLength ==
  ASSUME NEW b, BufferOk(b), NEW e \in 0 .. b.len, e = b.len \/ b.data[e] = NL
  PROVE  LET D == DocOf(b)
         IN  /\ Row(b, e) \in Nat /\ Len(D) \in Nat /\ Len(D[Row(b, e) + 1]) = e - line_start(b, e)
             /\ IF e = b.len THEN Len(D) = Row(b, e) + 1 ELSE Len(D) >= Row(b, e) + 2
<1> DEFINE D == DocOf(b)
           P == Pre(b, e)
           Q == Post(b, e)
<1>1. PICK n \in Nat : n = Row(b, e)
  BY PreIs
<1>2. Len(P) = n + 1 /\ Len(P[n + 1]) = e - line_start(b, e)
  BY <1>1, PreIs
<1>3. Written(P) /\ Written(Q) /\ Written(D) /\ D = Glue(P, Q)
  BY DocGlued
<1>4. Len(D) \in Nat
  BY <1>3 DEF Written
<1>5. CASE e = b.len
  <2>1. D = P
    BY <1>5 DEF DocOf, Pre
  <2> HIDE DEF D, P
  <2> QED
    BY <1>1, <1>2, <1>4, <1>5, <2>1 DEF D
<1>6. CASE e # b.len
  <2>1. e \in Nat /\ e < b.len /\ e + 1 \in 0 .. b.len /\ b.data[e] = NL
    BY <1>6, BufferFields
  <2> DEFINE R == Post(b, e + 1)
  <2>2. Pre(b, e + 1) = More(P, NL)
    BY <2>1, PreStep
  <2>3. Written(R) /\ D = Glue(More(P, NL), R)
    BY <2>1, <2>2, DocGlued
  <2> HIDE DEF D, P, R
  <2>4. Len(D) = Len(Glue(P, R)) + 1 /\ Len(P) \in 1 .. Len(Glue(P, R)) /\ D[Len(P)] = P[Len(P)]
    <3> DEFINE G == Glue(P, R)
               H == Glue(More(P, NL), R)
    <3>1. Len(H) = Len(G) + 1 /\ Len(P) \in 1 .. Len(G) /\ H[Len(P)] = P[Len(P)]
      BY <1>3, <2>3, GlueBreak DEF BreakGlued
    <3> QED
      BY <2>3, <3>1
  <2>5. GlueOf(P, R, Glue(P, R))
    BY <1>3, <2>3, GlueIs
  <2>6. Len(Glue(P, R)) \in Nat
    BY <2>5 DEF GlueOf, Written
  <2>7. Len(D) >= n + 2
    BY <1>2, <2>4, <2>6
  <2> QED
    BY <1>1, <1>2, <1>4, <1>6, <2>4, <2>7 DEF D
<1> QED
  BY <1>5, <1>6

\* The places of the characters, as in TextLines.
PlacesIn(ls) == UNION {{r} \X DOMAIN ls[r] : r \in DOMAIN ls}

Size(ls, k) == IsFiniteSet(PlacesIn(ls)) /\ Cardinality(PlacesIn(ls)) + Len(ls) - 1 = k

LEMMA PlacesAre ==
  ASSUME NEW ls, Written(ls)
  PROVE  PlacesIn(ls) = {p \in Nat \X Nat : p[1] \in 1 .. Len(ls) /\ p[2] \in 1 .. Len(ls[p[1]])}
<1>1. DOMAIN ls = 1 .. Len(ls) /\ Len(ls) \in Nat
  BY DEF Written
<1>2. \A r \in 1 .. Len(ls) : DOMAIN ls[r] = 1 .. Len(ls[r]) /\ Len(ls[r]) \in Nat /\ r \in Nat
  <2>1. \A r \in 1 .. Len(ls) : ls[r] \in Seq(Chars)
    BY ElementOfSeq DEF Written
  <2> QED
    BY <1>1, <2>1
<1> DEFINE S == {p \in Nat \X Nat : p[1] \in 1 .. Len(ls) /\ p[2] \in 1 .. Len(ls[p[1]])}
<1>3. ASSUME NEW p \in PlacesIn(ls) PROVE p \in S
  <2>1. PICK r \in 1 .. Len(ls) : p \in {r} \X (1 .. Len(ls[r]))
    BY <1>1, <1>2 DEF PlacesIn
  <2>2. PICK i \in 1 .. Len(ls[r]) : p = <<r, i>>
    BY <2>1
  <2>3. i \in Nat /\ r \in Nat
    BY <1>2
  <2> QED
    BY <2>2, <2>3
<1>4. ASSUME NEW p \in S PROVE p \in PlacesIn(ls)
  <2>1. PICK r \in Nat, i \in Nat : p = <<r, i>>
    OBVIOUS
  <2>2. r \in 1 .. Len(ls) /\ i \in 1 .. Len(ls[r])
    BY <2>1
  <2>3. p \in {r} \X DOMAIN ls[r] /\ r \in DOMAIN ls
    BY <1>1, <1>2, <2>1, <2>2
  <2> QED
    BY <2>3 DEF PlacesIn
<1> HIDE DEF S
<1>5. PlacesIn(ls) = S
  BY <1>3, <1>4
<1> QED
  BY <1>5 DEF S

LEMMA SizeMore ==
  ASSUME NEW ls, Written(ls), NEW c \in Chars, NEW k \in Nat, Size(ls, k)
  PROVE  Size(More(ls, c), k + 1)
<1> DEFINE ms == More(ls, c)
<1>1. MoreOf(ls, c, ms)
  BY MoreIs
<1> HIDE DEF ms
<1>2. PICK n \in Nat : n = Len(ls) /\ n > 0
  BY DEF Written
<1>3. Written(ms)
  BY <1>1 DEF MoreOf
<1>4. IsFiniteSet(PlacesIn(ls)) /\ Cardinality(PlacesIn(ls)) \in Nat /\ Cardinality(PlacesIn(ls)) + n - 1 = k
  BY <1>2, FS_CardinalityType DEF Size
<1>5. PlacesIn(ls) = {p \in Nat \X Nat : p[1] \in 1 .. n /\ p[2] \in 1 .. Len(ls[p[1]])}
  BY <1>2, PlacesAre
<1>6. PlacesIn(ms) = {p \in Nat \X Nat : p[1] \in 1 .. Len(ms) /\ p[2] \in 1 .. Len(ms[p[1]])}
  BY <1>3, PlacesAre
<1>7. CASE c = NL
  <2>1. Len(ms) = n + 1 /\ ms[n + 1] = <<>> /\ \A i \in 1 .. n : ms[i] = ls[i]
    BY <1>1, <1>2, <1>7 DEF MoreOf
  <2>2. ASSUME NEW r \in Nat, NEW i \in Nat
        PROVE  r \in 1 .. Len(ms) /\ i \in 1 .. Len(ms[r]) <=> r \in 1 .. n /\ i \in 1 .. Len(ls[r])
    <3>1. CASE r \in 1 .. n
      BY <2>1, <3>1
    <3>2. CASE r = n + 1
      <4>1. Len(ms[r]) = 0 /\ r \notin 1 .. n
        BY <2>1, <3>2
      <4> QED
        BY <4>1
    <3>3. CASE r \notin 1 .. n /\ r # n + 1
      BY <2>1, <3>3
    <3> QED
      BY <3>1, <3>2, <3>3
  <2>3. \A p \in Nat \X Nat : /\ p[1] \in Nat /\ p[2] \in Nat
    OBVIOUS
  <2>4. PlacesIn(ms) = PlacesIn(ls)
    BY <1>5, <1>6, <2>2, <2>3
  <2> QED
    BY <1>4, <2>1, <2>4 DEF Size, ms
<1>8. CASE c # NL
  <2>1. PICK m \in Nat : m = Len(ls[n])
    <3>1. ls[n] \in Seq(Chars)
      BY <1>2, ElementOfSeq DEF Written
    <3> QED
      BY <3>1
  <2>2. Len(ms) = n /\ Len(ms[n]) = m + 1 /\ \A i \in 1 .. n - 1 : ms[i] = ls[i]
    <3>1. ls[n] \in Seq(Chars)
      BY <1>2, ElementOfSeq DEF Written
    <3>2. Len(Append(ls[n], c)) = m + 1
      BY <2>1, <3>1, AppendProperties
    <3> QED
      BY <1>1, <1>2, <1>8, <3>2 DEF MoreOf
  <2>3. ASSUME NEW r \in Nat, NEW i \in Nat
        PROVE  r \in 1 .. Len(ms) /\ i \in 1 .. Len(ms[r])
                 <=> (r \in 1 .. n /\ i \in 1 .. Len(ls[r])) \/ (r = n /\ i = m + 1)
    <3>1. CASE r \in 1 .. n - 1
      <4>1. r \in 1 .. n /\ r # n /\ ms[r] = ls[r]
        BY <2>2, <3>1
      <4> QED
        BY <2>2, <4>1
    <3>2. CASE r = n
      <4>1. r \in 1 .. n
        BY <1>2, <3>2
      <4>2. i \in 1 .. m + 1 <=> i \in 1 .. m \/ i = m + 1
        OBVIOUS
      <4> QED
        BY <2>1, <2>2, <3>2, <4>1, <4>2
    <3>3. CASE r \notin 1 .. n
      <4>1. r # n
        BY <1>2, <3>3
      <4> QED
        BY <2>2, <3>3, <4>1
    <3> QED
      BY <3>1, <3>2, <3>3
  <2>4. PICK x : x = <<n, m + 1>>
    OBVIOUS
  <2>5. x \in Nat \X Nat /\ x[1] = n /\ x[2] = m + 1 /\ ~(x[2] \in 1 .. m)
    BY <2>4
  <2>6. x \notin PlacesIn(ls)
    BY <1>5, <2>1, <2>5
  <2>7. \A p \in Nat \X Nat : p[1] \in Nat /\ p[2] \in Nat /\ (p = x <=> p[1] = n /\ p[2] = m + 1)
    BY <2>4
  <2>8. PlacesIn(ms) = PlacesIn(ls) \cup {x}
    BY <1>5, <1>6, <2>3, <2>5, <2>7
  <2>9. IsFiniteSet(PlacesIn(ms)) /\ Cardinality(PlacesIn(ms)) = Cardinality(PlacesIn(ls)) + 1
    BY <1>4, <2>6, <2>8, FS_AddElement
  <2>10. Cardinality(PlacesIn(ms)) + Len(ms) - 1 = k + 1
    BY <1>4, <2>2, <2>9
  <2> QED
    BY <2>9, <2>10 DEF Size, ms
<1> QED
  BY <1>7, <1>8

LEMMA LinesSize == ASSUME NEW s \in Seq(Chars) PROVE Size(LinesOf(s), Len(s))
<1> DEFINE Ok(r) == Size(LinesOf(r), Len(r))
           I == {n \in Nat : \E r \in Seq(Chars) : Len(r) = n /\ ~Ok(r)}
<1>1. I = {}
  <2> SUFFICES ASSUME I # {} PROVE FALSE
    OBVIOUS
  <2>1. PICK n \in I : \A i \in I : n <= i
    BY SomeLeast
  <2>2. PICK r \in Seq(Chars) : Len(r) = n /\ ~Ok(r) /\ n \in Nat
    OBVIOUS
  <2>3. CASE n = 0
    <3> HIDE DEF I
    <3>1. r = <<>> /\ Len(r) = 0
      BY <2>2, <2>3
    <3>2. LinesOf(r) = NoLines
      BY <3>1, KeyNames, LinesStep DEF NoLines
    <3>3. Len(NoLines) = 1 /\ NoLines[1] = <<>> /\ DOMAIN NoLines = 1 .. 1
      BY DEF NoLines
    <3>4. PlacesIn(NoLines) = {}
      BY <3>3 DEF PlacesIn
    <3>5. Size(NoLines, 0)
      BY <3>3, <3>4, FS_EmptySet DEF Size
    <3> QED
      BY <2>2, <3>1, <3>2, <3>5
  <2>4. CASE n # 0
    <3>1. PICK q \in Seq(Chars), c \in Chars : r = Append(q, c) /\ Len(q) = n - 1
      BY <2>2, <2>4, TextEnds
    <3>2. n - 1 \in Nat /\ ~(n <= n - 1) /\ (n - 1) + 1 = n
      BY <2>2, <2>4
    <3>3. n - 1 \notin I
      BY <2>1, <3>2
    <3>4. Ok(q)
      BY <3>1, <3>2, <3>3
    <3> HIDE DEF I
    <3>5. LinesOf(r) = More(LinesOf(q), c)
      BY <3>1, LinesStep
    <3>6. Size(More(LinesOf(q), c), (n - 1) + 1)
      BY <3>1, <3>2, <3>4, LinesWritten, SizeMore
    <3> QED
      BY <2>2, <3>2, <3>5, <3>6
  <2> QED
    BY <2>3, <2>4
<1>2. Len(s) \in Nat
  OBVIOUS
<1> QED
  BY <1>1, <1>2

-----------------------------------------------------------------------------
(* The keys, on the list of lines: first those that move the cursor.       *)

AtRow(b) == Row(b, b.cursor)
AtCol(b) == b.cursor - line_start(b, b.cursor)

\* The list of lines is that of the characters alone.
SameText(b, u) == u.data = b.data /\ u.len = b.len

LEMMA TextIs ==
  ASSUME NEW b, NEW u, SameText(b, u)
  PROVE  /\ DocOf(u) = DocOf(b)
         /\ \A k : Row(u, k) = Row(b, k) /\ line_start(u, k) = line_start(b, k)
         /\ \A k : line_end(u, k) = line_end(b, k)
         /\ \A k : Pre(u, k) = Pre(b, k) /\ Post(u, k) = Post(b, k)
<1>1. u.data = b.data /\ u.len = b.len
  BY DEF SameText
<1>2. \A k : Row(u, k) = Row(b, k)
  BY <1>1 DEF Row, Breaks
<1>3. \A k : line_start(u, k) = line_start(b, k)
  BY <1>1 DEF line_start
<1>4. \A k : line_end(u, k) = line_end(b, k)
  BY <1>1 DEF line_end
<1>5. \A k : Flat(u, k) = Flat(b, k)
  BY <1>1 DEF Flat
<1>6. \A k : Rest(u, k) = Rest(b, k)
  BY <1>1 DEF Rest
<1> QED
  BY <1>1, <1>2, <1>3, <1>4, <1>5, <1>6 DEF DocOf, Pre, Post

\* The cursor put at an offset.
LEMMA AtIs ==
  ASSUME NEW b, BufferOk(b), NEW off \in 0 .. b.len
  PROVE  LET u == At(b, off)
         IN  /\ DocOf(u) = DocOf(b) /\ u.dirty = b.dirty /\ u.goal_col = -1
             /\ AtRow(u) = Row(b, off) /\ AtCol(u) = off - line_start(b, off)
<1> DEFINE u == At(b, off)
<1>1. u.data = b.data /\ u.len = b.len /\ u.cursor = off /\ u.goal_col = -1 /\ u.dirty = b.dirty
  BY DEF At, BufferOk, Buffers
<1> HIDE DEF u
<1>2. SameText(b, u)
  BY <1>1 DEF SameText
<1> QED
  BY <1>1, <1>2, TextIs DEF AtRow, AtCol, u

\* Where the cursor is.
LEMMA PlaceIs ==
  ASSUME NEW b, BufferOk(b)
  PROVE  /\ b.cursor \in Nat /\ b.len \in Nat /\ b.cursor <= b.len
         /\ AtRow(b) \in Nat /\ AtCol(b) \in Nat
         /\ Len(DocOf(b)) \in Nat /\ AtRow(b) + 1 <= Len(DocOf(b))
         /\ AtCol(b) <= Len(DocOf(b)[AtRow(b) + 1])
<1>1. PICK k \in Nat : k = b.cursor /\ b.len \in Nat /\ k \in 0 .. b.len
  BY BufferFields
<1> DEFINE P == Pre(b, k)
           Q == Post(b, k)
           D == DocOf(b)
<1>2. Row(b, k) \in Nat /\ Len(P) = Row(b, k) + 1 /\ Len(P[Row(b, k) + 1]) = k - line_start(b, k)
  BY <1>1, PreIs
<1>3. Written(P) /\ Written(Q) /\ D = Glue(P, Q)
  BY <1>1, DocGlued
<1>4. line_start(b, k) \in 0 .. k
  BY StartStep
<1> HIDE DEF P, Q, D
<1>5. GlueOf(P, Q, D)
  BY <1>3, GlueIs
<1>6. Len(D) \in Nat /\ Len(D) = Len(P) + Len(Q) - 1 /\ Len(Q) \in Nat /\ Len(Q) > 0
      /\ D[Len(P)] = P[Len(P)] \o Q[1]
  BY <1>3, <1>5 DEF GlueOf, Written
<1>7. Len(P[Len(P)] \o Q[1]) = Len(P[Len(P)]) + Len(Q[1]) /\ Len(Q[1]) \in Nat
  <2>1. P[Len(P)] \in Seq(Chars) /\ Q[1] \in Seq(Chars)
    BY <1>3, GlueLine
  <2> QED
    BY <2>1, TwoPieces
<1>8. k - line_start(b, k) \in Nat
  BY <1>1, <1>4
<1>9. AtRow(b) = Row(b, k) /\ AtCol(b) = k - line_start(b, k)
  BY <1>1 DEF AtRow, AtCol
<1>10. Row(b, k) + 1 <= Len(D)
  BY <1>2, <1>6
<1>11. k - line_start(b, k) <= Len(D[Row(b, k) + 1])
  <2>1. PICK l : l = P[Len(P)] \o Q[1]
    OBVIOUS
  <2>2. D[Row(b, k) + 1] = l /\ Len(P[Len(P)]) = k - line_start(b, k)
    BY <1>2, <1>6, <2>1
  <2>3. Len(l) = (k - line_start(b, k)) + Len(Q[1]) /\ Len(Q[1]) \in Nat
    BY <1>7, <2>1, <2>2
  <2> QED
    BY <1>8, <2>2, <2>3
<1>12. b.cursor \in Nat /\ b.len \in Nat /\ b.cursor <= b.len
  BY <1>1
<1>13. Row(b, k) \in Nat /\ Len(D) \in Nat
  BY <1>2, <1>6
<1> QED
  BY <1>8, <1>9, <1>10, <1>11, <1>12, <1>13 DEF D

LEMMA LeftIs ==
  ASSUME NEW b, BufferOk(b), b.cursor > 0
  PROVE  LET u == At(b, b.cursor - 1)
         IN  /\ DocOf(u) = DocOf(b) /\ u.dirty = b.dirty /\ u.goal_col = -1
             /\ \/ AtCol(b) > 0 /\ AtRow(u) = AtRow(b) /\ AtCol(u) = AtCol(b) - 1
                \/ /\ AtCol(b) = 0 /\ AtRow(b) > 0
                   /\ AtRow(u) = AtRow(b) - 1 /\ AtCol(u) = Len(DocOf(b)[AtRow(b)])
<1>1. PICK k \in Nat : k + 1 = b.cursor /\ k < b.len /\ k = b.cursor - 1
  <2>1. b.cursor - 1 \in Nat /\ (b.cursor - 1) + 1 = b.cursor /\ b.cursor - 1 < b.len
    BY PlaceIs
  <2> QED
    BY <2>1
<1>2. k \in 0 .. b.len
  BY <1>1, PlaceIs
<1> DEFINE u == At(b, k)
<1>3. /\ DocOf(u) = DocOf(b) /\ u.dirty = b.dirty /\ u.goal_col = -1
      /\ AtRow(u) = Row(b, k) /\ AtCol(u) = k - line_start(b, k)
  BY <1>2, AtIs
<1> HIDE DEF u
<1>4. Row(b, k) \in Nat /\ line_start(b, k) \in 0 .. k
  BY RowStep, StartStep
<1>5. CASE b.data[k] = NL
  <2>1. AtRow(b) = Row(b, k) + 1
    BY <1>1, <1>5, RowStep DEF AtRow
  <2>2. line_start(b, k + 1) = k + 1
    BY <1>5, StartStep
  <2>3. AtCol(b) = 0
    BY <1>1, <2>2 DEF AtCol
  <2>4. Len(DocOf(b)[Row(b, k) + 1]) = k - line_start(b, k)
    BY <1>2, <1>5, LineLength
  <2>5. AtRow(b) > 0 /\ AtRow(u) = AtRow(b) - 1
    BY <1>3, <1>4, <2>1
  <2> QED
    BY <1>1, <1>3, <2>1, <2>3, <2>4, <2>5 DEF u
<1>6. CASE b.data[k] # NL
  <2>1. AtRow(b) = Row(b, k)
    BY <1>1, <1>6, RowStep DEF AtRow
  <2>2. line_start(b, k + 1) = line_start(b, k)
    BY <1>6, StartStep
  <2>3. AtCol(b) > 0 /\ AtCol(u) = AtCol(b) - 1
    BY <1>1, <1>3, <1>4, <2>2 DEF AtCol
  <2> QED
    BY <1>1, <1>3, <2>1, <2>3 DEF u
<1> QED
  BY <1>5, <1>6

LEMMA RightIs ==
  ASSUME NEW b, BufferOk(b), b.cursor < b.len
  PROVE  LET u == At(b, b.cursor + 1)
         IN  /\ DocOf(u) = DocOf(b) /\ u.dirty = b.dirty /\ u.goal_col = -1
             /\ \/ /\ AtCol(b) < Len(DocOf(b)[AtRow(b) + 1])
                   /\ AtRow(u) = AtRow(b) /\ AtCol(u) = AtCol(b) + 1
                \/ /\ AtCol(b) = Len(DocOf(b)[AtRow(b) + 1]) /\ AtRow(b) + 1 < Len(DocOf(b))
                   /\ AtRow(u) = AtRow(b) + 1 /\ AtCol(u) = 0
<1>1. PICK k \in Nat : k = b.cursor /\ k < b.len /\ k \in 0 .. b.len /\ k + 1 \in 0 .. b.len
  BY PlaceIs
<1> DEFINE u == At(b, k + 1)
<1>2. /\ DocOf(u) = DocOf(b) /\ u.dirty = b.dirty /\ u.goal_col = -1
      /\ AtRow(u) = Row(b, k + 1) /\ AtCol(u) = (k + 1) - line_start(b, k + 1)
  BY <1>1, AtIs
<1> HIDE DEF u
<1>3. AtRow(b) = Row(b, k) /\ AtCol(b) = k - line_start(b, k)
  BY <1>1 DEF AtRow, AtCol
<1>4. Row(b, k) \in Nat /\ line_start(b, k) \in 0 .. k /\ Len(DocOf(b)) \in Nat
  BY RowStep, StartStep, PlaceIs
<1>5. CASE b.data[k] = NL
  <2>1. Row(b, k + 1) = Row(b, k) + 1 /\ line_start(b, k + 1) = k + 1
    BY <1>5, RowStep, StartStep
  <2>2. k # b.len
    BY <1>1
  <2>3. Len(DocOf(b)[Row(b, k) + 1]) = k - line_start(b, k) /\ Len(DocOf(b)) >= Row(b, k) + 2
    BY <1>1, <1>5, <2>2, LineLength
  <2>4. Row(b, k) + 1 < Len(DocOf(b)) /\ (k + 1) - (k + 1) = 0
    BY <1>4, <2>3
  <2> QED
    BY <1>1, <1>2, <1>3, <2>1, <2>3, <2>4 DEF u
<1>6. CASE b.data[k] # NL
  <2>1. Row(b, k + 1) = Row(b, k) /\ line_start(b, k + 1) = line_start(b, k)
    BY <1>6, RowStep, StartStep
  <2> DEFINE w == At(b, k + 1)
  <2>2. BufferOk(u)
    BY <1>1, AtOk DEF u
  <2>3. AtCol(u) <= Len(DocOf(u)[AtRow(u) + 1])
    BY <2>2, PlaceIs
  <2>4. AtCol(u) = AtCol(b) + 1 /\ AtRow(u) = AtRow(b)
    BY <1>2, <1>3, <1>4, <2>1
  <2>5. AtCol(b) + 1 <= Len(DocOf(b)[AtRow(b) + 1])
    BY <1>2, <2>3, <2>4
  <2>6. AtCol(b) < Len(DocOf(b)[AtRow(b) + 1])
    <3>1. Len(DocOf(b)[AtRow(b) + 1]) \in Nat
      <4>1. Written(DocOf(b)) /\ AtRow(b) + 1 \in 1 .. Len(DocOf(b))
        BY <1>1, DocGlued, PlaceIs
      <4>2. DocOf(b)[AtRow(b) + 1] \in Seq(Chars)
        BY <4>1, ElementOfSeq DEF Written
      <4> QED
        BY <4>2
    <3>2. AtCol(b) \in Nat
      BY PlaceIs
    <3> QED
      BY <2>5, <3>1, <3>2
  <2> QED
    BY <1>1, <1>2, <2>4, <2>6 DEF u
<1> QED
  BY <1>5, <1>6

LEMMA HomeIs ==
  ASSUME NEW b, BufferOk(b)
  PROVE  LET u == At(b, line_start(b, b.cursor))
         IN  /\ DocOf(u) = DocOf(b) /\ u.dirty = b.dirty /\ u.goal_col = -1
             /\ AtRow(u) = AtRow(b) /\ AtCol(u) = 0
<1>1. PICK k \in Nat : k = b.cursor /\ k <= b.len /\ b.len \in Nat
  BY PlaceIs
<1>2. PICK s \in 0 .. k : s = line_start(b, k) /\ s \in Nat /\ s \in 0 .. b.len
  <2>1. line_start(b, k) \in 0 .. k
    BY StartStep
  <2> QED
    BY <1>1, <2>1
<1>3. (s = 0 \/ b.data[s - 1] = NL) /\ \A i \in s .. k - 1 : b.data[i] # NL
  BY <1>2, StartIs DEF Starts
<1>4. Row(b, k) = Row(b, s) /\ line_start(b, k) = line_start(b, s)
  BY <1>2, <1>3, SameLine
<1>5. LET u == At(b, s)
      IN  /\ DocOf(u) = DocOf(b) /\ u.dirty = b.dirty /\ u.goal_col = -1
          /\ AtRow(u) = Row(b, s) /\ AtCol(u) = s - line_start(b, s)
  BY <1>2, AtIs
<1>6. s - line_start(b, s) = 0
  BY <1>2, <1>4
<1> QED
  BY <1>1, <1>2, <1>4, <1>5, <1>6 DEF AtRow

LEMMA EndKeyIs ==
  ASSUME NEW b, BufferOk(b)
  PROVE  LET u == At(b, line_end(b, b.cursor))
         IN  /\ DocOf(u) = DocOf(b) /\ u.dirty = b.dirty /\ u.goal_col = -1
             /\ AtRow(u) = AtRow(b) /\ AtCol(u) = Len(DocOf(b)[AtRow(b) + 1])
<1>1. PICK k \in Nat : k = b.cursor /\ k \in 0 .. b.len /\ b.len \in Nat
  BY PlaceIs
<1>2. PICK e : e = line_end(b, k)
  OBVIOUS
<1>3. e \in k .. b.len /\ (e = b.len \/ b.data[e] = NL) /\ \A i \in k .. e - 1 : b.data[i] # NL
  BY <1>1, <1>2, EndIs
<1>4. e \in Nat /\ k <= e /\ e \in 0 .. b.len
  BY <1>1, <1>3
<1>5. Row(b, e) = Row(b, k) /\ line_start(b, e) = line_start(b, k)
  BY <1>3, <1>4, SameLine
<1>6. Len(DocOf(b)[Row(b, e) + 1]) = e - line_start(b, e)
  BY <1>3, <1>4, LineLength
<1>7. LET u == At(b, e)
      IN  /\ DocOf(u) = DocOf(b) /\ u.dirty = b.dirty /\ u.goal_col = -1
          /\ AtRow(u) = Row(b, e) /\ AtCol(u) = e - line_start(b, e)
  BY <1>4, AtIs
<1> QED
  BY <1>1, <1>2, <1>5, <1>6, <1>7 DEF AtRow

\* The goal column, and the cursor's own without one.
GoalOf(b) == IF b.goal_col = -1 THEN AtCol(b) ELSE b.goal_col

LEMMA GoalIs ==
  ASSUME NEW b, BufferOk(b)
  PROVE  LET g == WithGoal(b)
         IN  /\ BufferOk(g) /\ SameText(b, g) /\ g.cursor = b.cursor /\ g.dirty = b.dirty
             /\ g.goal_col = GoalOf(b) /\ GoalOf(b) \in Nat
<1> DEFINE g == WithGoal(b)
<1>1. BufferOk(g) /\ g.goal_col \in Nat /\ SameText(b, g) /\ g.cursor = b.cursor
  BY GoalOk DEF SameText
<1>2. g.dirty = b.dirty /\ g.goal_col = GoalOf(b)
  <2>1. b.goal_col \in Nat \cup {-1}
    BY BufferFields
  <2>2. CASE b.goal_col >= 0
    <3>1. b.goal_col # -1
      BY <2>2
    <3> QED
      BY <2>2, <3>1 DEF WithGoal, GoalOf
  <2>3. CASE ~(b.goal_col >= 0)
    <3>1. b.goal_col = -1
      BY <2>1, <2>3
    <3>2. g = [b EXCEPT !.goal_col = b.cursor - line_start(b, b.cursor)]
      BY <2>3 DEF WithGoal
    <3> QED
      BY <3>1, <3>2 DEF GoalOf, AtCol, BufferOk, Buffers
  <2> QED
    BY <2>2, <2>3
<1> QED
  BY <1>1, <1>2

\* A cursor m characters into the line that begins at s and ends at e.
LEMMA WithinLine ==
  ASSUME NEW b, BufferOk(b), NEW s \in Nat, NEW e \in 0 .. b.len, s <= e,
         s = line_start(b, s), e = b.len \/ b.data[e] = NL, \A i \in s .. e - 1 : b.data[i] # NL,
         NEW m \in Nat, m <= e - s
  PROVE  LET D == DocOf(b)
             u == [b EXCEPT !.cursor = s + m]
         IN  /\ DocOf(u) = D /\ AtRow(u) = Row(b, s) /\ AtCol(u) = m
             /\ u.dirty = b.dirty /\ u.goal_col = b.goal_col
             /\ Len(D[Row(b, s) + 1]) = e - s /\ Row(b, s) + 1 <= Len(D)
<1> DEFINE u == [b EXCEPT !.cursor = s + m]
<1>1. u.data = b.data /\ u.len = b.len /\ u.cursor = s + m /\ u.dirty = b.dirty /\ u.goal_col = b.goal_col
  BY DEF BufferOk, Buffers
<1> HIDE DEF u
<1>2. SameText(b, u)
  BY <1>1 DEF SameText
<1>3. b.len \in Nat
  BY PlaceIs
<1>4. e \in Nat /\ s + m \in Nat /\ s <= s + m /\ \A i \in s .. (s + m) - 1 : i \in s .. e - 1
  BY <1>3
<1>5. Row(b, s + m) = Row(b, s) /\ line_start(b, s + m) = line_start(b, s)
  BY <1>4, SameLine
<1>6. Row(b, e) = Row(b, s) /\ line_start(b, e) = line_start(b, s)
  BY <1>4, SameLine
<1>7. /\ Row(b, e) \in Nat /\ Len(DocOf(b)) \in Nat /\ Len(DocOf(b)[Row(b, e) + 1]) = e - line_start(b, e)
      /\ IF e = b.len THEN Len(DocOf(b)) = Row(b, e) + 1 ELSE Len(DocOf(b)) >= Row(b, e) + 2
  BY LineLength
<1>8. Row(b, s) + 1 <= Len(DocOf(b)) /\ Len(DocOf(b)[Row(b, s) + 1]) = e - s
  BY <1>6, <1>7
<1>9. AtRow(u) = Row(b, s) /\ AtCol(u) = m /\ DocOf(u) = DocOf(b)
  <2>1. (s + m) - s = m
    BY <1>3
  <2> QED
    BY <1>1, <1>2, <1>5, <2>1, TextIs DEF AtRow, AtCol
<1> QED
  BY <1>1, <1>8, <1>9 DEF u

\* Where a vertical move leads: the goal column, or the line's last.
VerticalTo(b, u, r) ==
  /\ DocOf(u) = DocOf(b) /\ u.dirty = b.dirty /\ u.goal_col = GoalOf(b)
  /\ IF r \in 0 .. Len(DocOf(b)) - 1
     THEN AtRow(u) = r /\ AtCol(u) = Min({GoalOf(b), Len(DocOf(b)[r + 1])})
     ELSE AtRow(u) = AtRow(b) /\ AtCol(u) = AtCol(b)

LEMMA UpIs == ASSUME NEW b, BufferOk(b) PROVE VerticalTo(b, eb_up(b), AtRow(b) - 1)
<1> DEFINE g == WithGoal(b)
           ls == line_start(g, g.cursor)
           prev == line_start(g, ls - 1)
           back == Min({g.goal_col, ls - 1 - prev})
           u == eb_up(b)
<1>1. /\ BufferOk(g) /\ SameText(b, g) /\ g.cursor = b.cursor /\ g.dirty = b.dirty
      /\ g.goal_col = GoalOf(b) /\ GoalOf(b) \in Nat
  BY GoalIs
<1>2. u = IF ls = 0 THEN g ELSE [g EXCEPT !.cursor = prev + back]
  BY DEF eb_up
<1> HIDE DEF g, u
<1>3. PICK k \in Nat : k = g.cursor /\ k <= g.len /\ g.len \in Nat
  BY <1>1, PlaceIs
<1>4. DocOf(g) = DocOf(b) /\ AtRow(g) = AtRow(b) /\ AtCol(g) = AtCol(b) /\ AtRow(b) = Row(g, k)
  BY <1>1, <1>3, TextIs DEF AtRow, AtCol
<1>5. PICK s \in 0 .. k : s = ls
  BY <1>3, StartStep
<1>6. s \in Nat /\ (s = 0 \/ g.data[s - 1] = NL) /\ \A i \in s .. k - 1 : g.data[i] # NL
  BY <1>3, <1>5, StartIs DEF Starts
<1>7. Row(g, k) = Row(g, s)
  BY <1>5, <1>6, SameLine
<1>8. CASE s = 0
  <2>1. AtRow(b) = 0
    BY <1>4, <1>7, <1>8, RowStep
  <2>2. ~(AtRow(b) - 1 \in 0 .. Len(DocOf(b)) - 1)
    BY <2>1
  <2>3. u = g
    BY <1>2, <1>5, <1>8
  <2> QED
    BY <1>1, <1>4, <2>2, <2>3 DEF VerticalTo, u
<1>9. CASE s # 0
  <2>1. PICK j \in Nat : j = s - 1 /\ j + 1 = s /\ j \in 0 .. g.len /\ j < g.len /\ j = ls - 1
    <3>1. s - 1 \in Nat /\ (s - 1) + 1 = s /\ s - 1 \in 0 .. g.len /\ s - 1 < g.len
      BY <1>3, <1>6, <1>9
    <3> QED
      BY <1>5, <3>1
  <2>2. g.data[j] = NL
    BY <1>6, <1>9, <2>1
  <2>3. Row(g, s) = Row(g, j) + 1 /\ Row(g, j) \in Nat
    BY <2>1, <2>2, RowStep
  <2>4. PICK p \in 0 .. j : p = line_start(g, j)
    BY <2>1, StartStep
  <2>5. p \in Nat /\ \A i \in p .. j - 1 : g.data[i] # NL
    BY <2>1, <2>4, StartIs DEF Starts
  <2>6. Row(g, j) = Row(g, p) /\ line_start(g, j) = line_start(g, p)
    BY <2>1, <2>4, <2>5, SameLine
  <2>7. PICK m \in Nat : m = Min({g.goal_col, j - p}) /\ m <= j - p
    <3>1. j - p \in Nat
      BY <2>4, <2>5
    <3> QED
      BY <1>1, <3>1, LesserIs
  <2>8. u = [g EXCEPT !.cursor = p + m]
    BY <1>2, <1>5, <1>9, <2>1, <2>4, <2>7
  <2> DEFINE w == [g EXCEPT !.cursor = p + m]
  <2>9. /\ DocOf(w) = DocOf(g) /\ AtRow(w) = Row(g, p) /\ AtCol(w) = m
        /\ w.dirty = g.dirty /\ w.goal_col = g.goal_col
        /\ Len(DocOf(g)[Row(g, p) + 1]) = j - p /\ Row(g, p) + 1 <= Len(DocOf(g))
    <3>1. p \in Nat /\ p <= j /\ p = line_start(g, p) /\ j \in 0 .. g.len
      BY <2>1, <2>4, <2>5, <2>6
    <3>2. j = g.len \/ g.data[j] = NL
      BY <2>2
    <3>3. (\A i \in p .. j - 1 : g.data[i] # NL) /\ m \in Nat /\ m <= j - p
      BY <2>5, <2>7
    <3> QED
      BY <1>1, <3>1, <3>2, <3>3, WithinLine
  <2> HIDE DEF w
  <2>10. AtRow(b) - 1 = Row(g, p) /\ Row(g, p) \in 0 .. Len(DocOf(b)) - 1
    <3>1. Len(DocOf(b)) \in Nat
      BY PlaceIs
    <3>2. AtRow(b) = Row(g, p) + 1 /\ Row(g, p) \in Nat /\ Row(g, p) + 1 <= Len(DocOf(b))
      BY <1>4, <1>7, <2>3, <2>6, <2>9
    <3> QED
      BY <3>1, <3>2
  <2> QED
    BY <1>1, <1>4, <2>7, <2>8, <2>9, <2>10 DEF VerticalTo, u, w
<1> QED
  BY <1>8, <1>9

LEMMA DownIs == ASSUME NEW b, BufferOk(b) PROVE VerticalTo(b, eb_down(b), AtRow(b) + 1)
<1> DEFINE g == WithGoal(b)
           le == line_end(g, g.cursor)
           next == le + 1
           fwd == Min({g.goal_col, line_end(g, next) - next})
           u == eb_down(b)
<1>1. /\ BufferOk(g) /\ SameText(b, g) /\ g.cursor = b.cursor /\ g.dirty = b.dirty
      /\ g.goal_col = GoalOf(b) /\ GoalOf(b) \in Nat
  BY GoalIs
<1>2. u = IF le >= g.len THEN g ELSE [g EXCEPT !.cursor = next + fwd]
  BY DEF eb_down
<1> HIDE DEF g, u
<1>3. PICK k \in Nat : k = g.cursor /\ k <= g.len /\ g.len \in Nat /\ k \in 0 .. g.len
  BY <1>1, PlaceIs
<1>4. DocOf(g) = DocOf(b) /\ AtRow(g) = AtRow(b) /\ AtCol(g) = AtCol(b) /\ AtRow(b) = Row(g, k)
  BY <1>1, <1>3, TextIs DEF AtRow, AtCol
<1>5. PICK e : e = le
  OBVIOUS
<1>6. e \in k .. g.len /\ (e = g.len \/ g.data[e] = NL) /\ \A i \in k .. e - 1 : g.data[i] # NL
  BY <1>3, <1>5, EndIs
<1>7. e \in Nat /\ k <= e /\ e \in 0 .. g.len
  BY <1>3, <1>6
<1>8. Row(g, e) = Row(g, k)
  BY <1>6, <1>7, SameLine
<1>9. /\ Row(g, e) \in Nat /\ Len(DocOf(g)) \in Nat
      /\ IF e = g.len THEN Len(DocOf(g)) = Row(g, e) + 1 ELSE Len(DocOf(g)) >= Row(g, e) + 2
  BY <1>1, <1>6, <1>7, LineLength
<1>10. CASE e >= g.len
  <2>1. e = g.len
    BY <1>3, <1>6, <1>10
  <2>2. Len(DocOf(b)) = AtRow(b) + 1 /\ AtRow(b) \in Nat
    BY <1>4, <1>8, <1>9, <2>1
  <2>3. ~(AtRow(b) + 1 \in 0 .. Len(DocOf(b)) - 1)
    BY <2>2
  <2>4. u = g
    BY <1>2, <1>5, <1>10
  <2> QED
    BY <1>1, <1>4, <2>3, <2>4 DEF VerticalTo, u
<1>11. CASE ~(e >= g.len)
  <2>1. PICK s \in Nat : s = e + 1 /\ s \in 0 .. g.len /\ s = next
    <3>1. e + 1 \in Nat /\ e + 1 \in 0 .. g.len
      BY <1>3, <1>7, <1>11
    <3> QED
      BY <1>5, <3>1
  <2>2. g.data[e] = NL
    BY <1>6, <1>11, <1>7
  <2>3. Row(g, s) = Row(g, e) + 1 /\ line_start(g, s) = s
    BY <1>7, <2>1, <2>2, RowStep, StartStep
  <2>4. PICK f : f = line_end(g, s)
    OBVIOUS
  <2>5. f \in s .. g.len /\ (f = g.len \/ g.data[f] = NL) /\ \A i \in s .. f - 1 : g.data[i] # NL
    BY <1>3, <2>1, <2>4, EndIs
  <2>6. f \in Nat /\ s <= f /\ f \in 0 .. g.len /\ f - s \in Nat
    BY <1>3, <2>5
  <2>7. PICK m \in Nat : m = Min({g.goal_col, f - s}) /\ m <= f - s
    BY <1>1, <2>6, LesserIs
  <2>8. u = [g EXCEPT !.cursor = s + m]
    BY <1>2, <1>5, <1>11, <2>1, <2>4, <2>7
  <2> DEFINE w == [g EXCEPT !.cursor = s + m]
  <2>9. /\ DocOf(w) = DocOf(g) /\ AtRow(w) = Row(g, s) /\ AtCol(w) = m
        /\ w.dirty = g.dirty /\ w.goal_col = g.goal_col
        /\ Len(DocOf(g)[Row(g, s) + 1]) = f - s /\ Row(g, s) + 1 <= Len(DocOf(g))
    <3>1. BufferOk(g)
      BY <1>1
    <3>2. s = line_start(g, s) /\ f \in 0 .. g.len /\ s <= f
      BY <2>3, <2>6
    <3>3. (f = g.len \/ g.data[f] = NL) /\ \A i \in s .. f - 1 : g.data[i] # NL
      BY <2>5
    <3> QED
      BY <2>7, <3>1, <3>2, <3>3, WithinLine
  <2> HIDE DEF w
  <2>10. AtRow(b) + 1 = Row(g, s) /\ Row(g, s) \in 0 .. Len(DocOf(b)) - 1
    <3>1. AtRow(b) + 1 = Row(g, s)
      BY <1>4, <1>8, <2>3
    <3>2. Row(g, s) \in Nat /\ Row(g, s) + 1 <= Len(DocOf(b)) /\ Len(DocOf(b)) \in Nat
      BY <1>4, <1>9, <2>3, <2>9
    <3>3. Row(g, s) \in 0 .. Len(DocOf(b)) - 1
      BY <3>2
    <3> QED
      BY <3>1, <3>3
  <2> QED
    BY <1>1, <1>4, <2>7, <2>8, <2>9, <2>10 DEF VerticalTo, u, w
<1> QED
  BY <1>10, <1>11

-----------------------------------------------------------------------------
(* The keys that change the text.                                          *)

LEMMA ChangedIs ==
  ASSUME NEW b, BufferOk(b)
  PROVE  LET u == Changed(b)
         IN  /\ DocOf(u) = DocOf(b) /\ AtRow(u) = AtRow(b) /\ AtCol(u) = AtCol(b)
             /\ u.dirty = TRUE /\ u.goal_col = -1
<1> DEFINE u == Changed(b)
<1>1. /\ u.data = b.data /\ u.len = b.len /\ u.cursor = b.cursor
      /\ u.dirty = TRUE /\ u.goal_col = -1
  BY DEF Changed, BufferOk, Buffers
<1> HIDE DEF u
<1>2. SameText(b, u)
  BY <1>1 DEF SameText
<1> QED
  BY <1>1, <1>2, TextIs DEF AtRow, AtCol, u

\* The row and column of the cursor from the lines before it.
LEMMA CutIs ==
  ASSUME NEW b, BufferOk(b), NEW k \in 0 .. b.len
  PROVE  LET P == Pre(b, k)
             Q == Post(b, k)
         IN  /\ Written(P) /\ Written(Q) /\ DocOf(b) = Glue(P, Q)
             /\ P[Len(P)] \in Seq(Chars) /\ Q[1] \in Seq(Chars)
             /\ Len(P) \in Nat /\ Len(P) = Row(b, k) + 1
             /\ Len(P[Len(P)]) \in Nat /\ Len(P[Len(P)]) = k - line_start(b, k)
<1> DEFINE P == Pre(b, k)
           Q == Post(b, k)
<1>1. Written(P) /\ Written(Q) /\ DocOf(b) = Glue(P, Q)
  BY DocGlued
<1>2. Row(b, k) \in Nat /\ Len(P) = Row(b, k) + 1 /\ Len(P[Row(b, k) + 1]) = k - line_start(b, k)
  BY PreIs
<1> HIDE DEF P, Q
<1>3. P[Len(P)] \in Seq(Chars) /\ Q[1] \in Seq(Chars)
  BY <1>1, GlueLine
<1>4. Len(P[Len(P)]) \in Nat
  BY <1>3
<1> QED
  BY <1>1, <1>2, <1>3, <1>4 DEF P, Q

\* A character put in: into its line, or as a new line end.
TypedTo(b, u, c) ==
  LET D == DocOf(b)
      n == AtRow(b) + 1
  IN  /\ DocOf(u) = [D EXCEPT ![n] = InsertAt(D[n], AtCol(b) + 1, c)]
      /\ AtRow(u) = AtRow(b) /\ AtCol(u) = AtCol(b) + 1

SplitTo(b, u) ==
  LET D == DocOf(b)
      n == AtRow(b) + 1
      l == D[n]
  IN  /\ DocOf(u) = SubSeq(D, 1, AtRow(b)) \o <<SubSeq(l, 1, AtCol(b)), SubSeq(l, AtCol(b) + 1, Len(l))>>
                      \o SubSeq(D, AtRow(b) + 2, Len(D))
      /\ AtRow(u) = AtRow(b) + 1 /\ AtCol(u) = 0

LEMMA TypedIs ==
  ASSUME NEW b, BufferOk(b), NEW c \in Chars, b.len < EDITBUF_CAPACITY
  PROVE  LET u == eb_insert(b, c)
         IN  IF c = NL THEN SplitTo(b, u) ELSE TypedTo(b, u, c)
<1> DEFINE u == eb_insert(b, c)
<1>1. PICK k \in Nat : k = b.cursor /\ k \in 0 .. b.len
  BY PlaceIs
<1>2. /\ BufferOk(u) /\ u.cursor = k + 1 /\ k + 1 \in 0 .. u.len
      /\ Pre(u, k + 1) = More(Pre(b, k), c) /\ Post(u, k + 1) = Post(b, k)
  <2>1. /\ BufferOk(u) /\ u.cursor = k + 1 /\ u.len = b.len + 1
        /\ Pre(u, k + 1) = More(Pre(b, k), c) /\ Post(u, k + 1) = Post(b, k)
    BY <1>1, InsertedIs
  <2>2. k + 1 \in 0 .. b.len + 1
    BY <1>1, PlaceIs
  <2> QED
    BY <2>1, <2>2
<1> HIDE DEF u
<1> DEFINE P == Pre(b, k)
           Q == Post(b, k)
           R == More(P, c)
           n == Len(P)
           p == P[n]
           q == Q[1]
           G == Glue(P, Q)
           H == Glue(R, Q)
<1>3. /\ Written(P) /\ Written(Q) /\ DocOf(b) = G
      /\ p \in Seq(Chars) /\ q \in Seq(Chars) /\ n \in Nat /\ Len(p) \in Nat
      /\ AtRow(b) + 1 = n /\ AtRow(b) \in Nat /\ AtCol(b) = Len(p)
  <2>1. AtRow(b) \in Nat
    BY PlaceIs
  <2> QED
    BY <1>1, <2>1, CutIs DEF AtRow, AtCol
<1>4. DocOf(u) = H /\ Len(R) = AtRow(u) + 1 /\ Len(R[Len(R)]) = AtCol(u) /\ AtRow(u) \in Nat
  <2>1. AtRow(u) \in Nat
    BY <1>2, PlaceIs
  <2> QED
    BY <1>2, <2>1, CutIs DEF AtRow, AtCol
<1>5. MoreOf(P, c, R)
  BY <1>3, MoreIs
<1> HIDE DEF P, Q, R
<1>6. CASE c = NL
  <2>1. Len(R) = n + 1 /\ R[n + 1] = <<>>
    BY <1>5, <1>6 DEF MoreOf
  <2>2. AtRow(u) = AtRow(b) + 1 /\ AtCol(u) = 0
    <3>1. Len(<<>>) = 0
      OBVIOUS
    <3> QED
      BY <1>3, <1>4, <2>1, <3>1
  <2>3. /\ n \in 1 .. Len(G) /\ G[n] = p \o q
        /\ H = SubSeq(G, 1, n - 1) \o <<p, q>> \o SubSeq(G, n + 1, Len(G))
    <3>1. BreakGlued(P, Q, G, H)
      BY <1>3, <1>6, GlueBreak DEF R
    <3> QED
      BY <3>1 DEF BreakGlued
  <2> HIDE DEF G, H
  <2>4. SubSeq(p \o q, 1, Len(p)) = p /\ SubSeq(p \o q, Len(p) + 1, Len(p \o q)) = q
    BY <1>3, TwoPieces
  <2> HIDE DEF p, q
  <2>5. SubSeq(G[n], 1, AtCol(b)) = p /\ SubSeq(G[n], AtCol(b) + 1, Len(G[n])) = q
    BY <1>3, <2>3, <2>4
  <2>6. n - 1 = AtRow(b) /\ n + 1 = AtRow(b) + 2
    BY <1>3
  <2>7. SplitTo(b, u)
    BY <1>3, <1>4, <2>2, <2>3, <2>5, <2>6 DEF SplitTo
  <2> QED
    BY <1>6, <2>7 DEF u
<1>7. CASE c # NL
  <2>1. Len(R) = n /\ R[n] = Append(p, c)
    BY <1>5, <1>7 DEF MoreOf
  <2>2. AtRow(u) = AtRow(b) /\ AtCol(u) = AtCol(b) + 1
    <3>1. Len(Append(p, c)) = Len(p) + 1
      BY <1>3, AppendProperties
    <3> HIDE DEF p, n
    <3> QED
      BY <1>3, <1>4, <2>1, <3>1
  <2>3. G[n] = p \o q /\ H = [G EXCEPT ![n] = Append(p, c) \o q]
    <3>1. CharGlued(P, Q, c, G, H)
      BY <1>3, <1>7, GlueChar DEF R
    <3> QED
      BY <3>1 DEF CharGlued
  <2> HIDE DEF G, H
  <2>4. InsertAt(p \o q, Len(p) + 1, c) = Append(p, c) \o q
    BY <1>3, CharBetween
  <2> HIDE DEF p, q, n
  <2>5. InsertAt(G[n], AtCol(b) + 1, c) = Append(p, c) \o q
    BY <1>3, <2>3, <2>4
  <2>6. TypedTo(b, u, c)
    BY <1>3, <1>4, <2>2, <2>3, <2>5 DEF TypedTo
  <2> QED
    BY <1>7, <2>6 DEF u
<1> QED
  BY <1>6, <1>7

\* The character behind u's cursor, as b has it, taken out.
RemovedTo(b, u) ==
  LET D == DocOf(b)
      n == AtRow(u) + 1
  IN  AtCol(u) < Len(D[n]) /\ DocOf(u) = [D EXCEPT ![n] = RemoveAt(D[n], AtCol(u) + 1)]

JoinedTo(b, u) ==
  LET D == DocOf(b)
      n == AtRow(u) + 1
  IN  /\ AtCol(u) = Len(D[n]) /\ n < Len(D)
      /\ DocOf(u) = SubSeq(D, 1, AtRow(u)) \o <<D[n] \o D[AtRow(u) + 2]>>
                      \o SubSeq(D, AtRow(u) + 3, Len(D))

LEMMA RemovedIs ==
  ASSUME NEW b, BufferOk(b), NEW at \in Nat, at < b.len,
         NEW u, BufferOk(u), u.cursor = at, Pre(u, at) = Pre(b, at), Post(u, at) = Post(b, at + 1)
  PROVE  /\ AtRow(u) = Row(b, at) /\ AtCol(u) = at - line_start(b, at)
         /\ IF b.data[at] = NL THEN JoinedTo(b, u) ELSE RemovedTo(b, u)
<1> DEFINE c == b.data[at]
           P == Pre(b, at)
           Q == Post(b, at + 1)
           R == More(P, c)
           n == Len(P)
           p == P[n]
           q == Q[1]
           G == Glue(P, Q)
           H == Glue(R, Q)
<1>1. at \in 0 .. b.len /\ at + 1 \in 0 .. b.len /\ at \in 0 .. u.len
  <2>1. b.len \in Nat /\ u.len \in Nat /\ u.cursor <= u.len
    BY PlaceIs
  <2> QED
    BY <2>1
<1>2. c \in Chars /\ Pre(b, at + 1) = R
  BY PreStep
<1>3. Written(Q) /\ DocOf(b) = H
  BY <1>1, <1>2, DocGlued
<1>4. /\ Written(P) /\ p \in Seq(Chars) /\ n \in Nat /\ Len(p) \in Nat
      /\ n = Row(b, at) + 1 /\ Len(p) = at - line_start(b, at)
  BY <1>1, CutIs
<1>5. DocOf(u) = G /\ q \in Seq(Chars) /\ n = AtRow(u) + 1 /\ Len(p) = AtCol(u)
  BY <1>1, CutIs DEF AtRow, AtCol
<1>6. AtRow(u) \in Nat /\ Row(b, at) \in Nat
  BY PlaceIs, RowStep
<1> HIDE DEF c, P, Q
<1>7. AtRow(u) = Row(b, at) /\ AtCol(u) = at - line_start(b, at)
  BY <1>4, <1>5, <1>6
<1>8. CASE c = NL
  <2>1. /\ Len(H) = Len(G) + 1 /\ n \in 1 .. Len(G) /\ G[n] = p \o q /\ H[n] = p /\ H[n + 1] = q
        /\ G = SubSeq(H, 1, n - 1) \o <<p \o q>> \o SubSeq(H, n + 2, Len(H))
    <3>1. BreakGlued(P, Q, G, H)
      BY <1>3, <1>4, <1>8, GlueBreak
    <3> QED
      BY <3>1 DEF BreakGlued
  <2>2. n < Len(H)
    <3>1. GlueOf(P, Q, G)
      BY <1>3, <1>4, GlueIs
    <3>2. Len(G) \in Nat
      BY <3>1 DEF GlueOf, Written
    <3> HIDE DEF G, H, n
    <3>3. PICK g \in Nat : g = Len(G)
      BY <3>2
    <3>4. Len(H) = g + 1 /\ n \in 1 .. g
      BY <2>1, <3>3
    <3>5. \A i \in 1 .. g : i < g + 1
      BY <3>3
    <3> QED
      BY <3>4, <3>5
  <2> HIDE DEF G, H, p, q, n
  <2>3. n - 1 = AtRow(u) /\ n + 1 = AtRow(u) + 2 /\ n + 2 = AtRow(u) + 3
    BY <1>5, <1>6
  <2>4. JoinedTo(b, u)
    BY <1>3, <1>5, <2>1, <2>2, <2>3 DEF JoinedTo
  <2> QED
    BY <1>7, <1>8, <2>4 DEF c
<1>9. CASE c # NL
  <2>1. H[n] = Append(p, c) \o q /\ G = [H EXCEPT ![n] = p \o q]
    <3>1. CharGlued(P, Q, c, G, H)
      BY <1>2, <1>3, <1>4, <1>9, GlueChar
    <3> QED
      BY <3>1 DEF CharGlued
  <2> HIDE DEF G, H
  <2>2. RemoveAt(Append(p, c) \o q, Len(p) + 1) = p \o q /\ Len(p) < Len(Append(p, c) \o q)
    BY <1>2, <1>4, <1>5, CharBetween
  <2> HIDE DEF p, q, n
  <2>3. RemovedTo(b, u)
    BY <1>3, <1>5, <2>1, <2>2 DEF RemovedTo
  <2> QED
    BY <1>7, <1>9, <2>3 DEF c
<1> QED
  BY <1>8, <1>9

LEMMA DeleteIs ==
  ASSUME NEW b, BufferOk(b), b.cursor < b.len
  PROVE  LET u == eb_erase(b, b.cursor)
         IN  /\ BufferOk(u) /\ AtRow(u) = AtRow(b) /\ AtCol(u) = AtCol(b)
             /\ JoinedTo(b, u) \/ RemovedTo(b, u)
<1> DEFINE u == eb_erase(b, b.cursor)
<1>1. PICK at \in Nat : at = b.cursor /\ at < b.len /\ b.cursor <= b.len - 1
  <2>1. b.cursor <= b.len - 1
    BY PlaceIs
  <2> QED
    BY <2>1, PlaceIs
<1>2. BufferOk(u) /\ u.cursor = at /\ Pre(u, at) = Pre(b, at) /\ Post(u, at) = Post(b, at + 1)
  BY <1>1, ErasedIs
<1> HIDE DEF u
<1>3. /\ AtRow(u) = Row(b, at) /\ AtCol(u) = at - line_start(b, at)
      /\ IF b.data[at] = NL THEN JoinedTo(b, u) ELSE RemovedTo(b, u)
  BY <1>1, <1>2, RemovedIs
<1> QED
  BY <1>1, <1>2, <1>3 DEF AtRow, AtCol, u

LEMMA BackspaceIs ==
  ASSUME NEW b, BufferOk(b), b.cursor > 0
  PROVE  LET u == eb_erase([b EXCEPT !.cursor = b.cursor - 1], b.cursor - 1)
         IN  /\ BufferOk(u)
             /\ \/ AtCol(b) > 0 /\ AtRow(u) = AtRow(b) /\ AtCol(u) = AtCol(b) - 1 /\ RemovedTo(b, u)
                \/ /\ AtCol(b) = 0 /\ AtRow(b) > 0
                   /\ AtRow(u) = AtRow(b) - 1 /\ JoinedTo(b, u)
<1>1. PICK at \in Nat : at = b.cursor - 1 /\ at + 1 = b.cursor /\ at < b.len /\ at \in 0 .. b.len /\ at <= b.len - 1
  <2>1. b.cursor - 1 \in Nat /\ (b.cursor - 1) + 1 = b.cursor /\ b.cursor - 1 < b.len
        /\ b.cursor - 1 \in 0 .. b.len /\ b.cursor - 1 <= b.len - 1
    BY PlaceIs
  <2> QED
    BY <2>1
<1> DEFINE m == [b EXCEPT !.cursor = at]
           u == eb_erase(m, at)
<1>2. BufferOk(m) /\ SameText(b, m) /\ m.cursor = at /\ m.len = b.len
  <2>1. BufferOk(m)
    BY <1>1, MovedOk
  <2>2. m.data = b.data /\ m.len = b.len /\ m.cursor = at
    BY DEF BufferOk, Buffers
  <2> QED
    BY <2>1, <2>2 DEF SameText
<1> HIDE DEF m
<1>3. BufferOk(u) /\ u.cursor = at /\ Pre(u, at) = Pre(m, at) /\ Post(u, at) = Post(m, at + 1)
  BY <1>1, <1>2, ErasedIs
<1> HIDE DEF u
<1>4. Pre(u, at) = Pre(b, at) /\ Post(u, at) = Post(b, at + 1)
  BY <1>2, <1>3, TextIs
<1>5. /\ AtRow(u) = Row(b, at) /\ AtCol(u) = at - line_start(b, at)
      /\ IF b.data[at] = NL THEN JoinedTo(b, u) ELSE RemovedTo(b, u)
  BY <1>1, <1>3, <1>4, RemovedIs
<1>6. Row(b, at) \in Nat /\ line_start(b, at) \in 0 .. at
  BY RowStep, StartStep
<1>7. AtRow(b) = Row(b, at + 1) /\ AtCol(b) = (at + 1) - line_start(b, at + 1)
  BY <1>1 DEF AtRow, AtCol
<1>8. CASE b.data[at] = NL
  <2>1. Row(b, at + 1) = Row(b, at) + 1 /\ line_start(b, at + 1) = at + 1
    BY <1>8, RowStep, StartStep
  <2>2. AtCol(b) = 0 /\ AtRow(b) > 0 /\ AtRow(u) = AtRow(b) - 1
    BY <1>5, <1>6, <1>7, <2>1
  <2> QED
    BY <1>1, <1>3, <1>5, <1>8, <2>2 DEF u, m
<1>9. CASE b.data[at] # NL
  <2>1. Row(b, at + 1) = Row(b, at) /\ line_start(b, at + 1) = line_start(b, at)
    BY <1>9, RowStep, StartStep
  <2>2. AtCol(b) > 0 /\ AtRow(u) = AtRow(b) /\ AtCol(u) = AtCol(b) - 1
    BY <1>5, <1>6, <1>7, <2>1
  <2> QED
    BY <1>1, <1>3, <1>5, <1>9, <2>2 DEF u, m
<1> QED
  BY <1>8, <1>9

\* k spaces, and the line of the cursor with them put in.
Blanks(k) == [i \in 1 .. k |-> " "]

\* u is b with k spaces put in, as far as its lines before the cursor and behind it go.
Tabbed(b, u, k) ==
  LET P == Pre(b, b.cursor)
      R == Pre(u, u.cursor)
      n == Len(P)
  IN  /\ BufferOk(u) /\ u.len = b.len + k /\ u.cursor = b.cursor + k
      /\ Post(u, u.cursor) = Post(b, b.cursor)
      /\ Len(R) = n /\ (\A i \in 1 .. n - 1 : R[i] = P[i]) /\ R[n] = P[n] \o Blanks(k)

LEMMA BlanksGrow ==
  ASSUME NEW k \in Nat
  PROVE  /\ Blanks(k) \in Seq(Chars) /\ Len(Blanks(k)) = k
         /\ Append(Blanks(k), SPACE) = Blanks(k + 1) /\ Blanks(0) = <<>>
<1>1. \A j \in Nat : Blanks(j) \in Seq(Chars) /\ Len(Blanks(j)) = j /\ \A i \in 1 .. j : Blanks(j)[i] = SPACE
  BY DEF Blanks, Chars, SPACE
<1> DEFINE s == Blanks(k)
           t == Blanks(k + 1)
           a == Append(s, SPACE)
<1>2. s \in Seq(Chars) /\ Len(s) = k /\ \A i \in 1 .. k : s[i] = SPACE
  BY <1>1
<1>3. t \in Seq(Chars) /\ Len(t) = k + 1 /\ \A i \in 1 .. k + 1 : t[i] = SPACE
  BY <1>1
<1> HIDE DEF s, t
<1>4. SPACE \in Chars
  BY DEF Chars
<1>5. a \in Seq(Chars) /\ Len(a) = k + 1 /\ a[k + 1] = SPACE /\ \A i \in 1 .. k : a[i] = s[i]
  BY <1>2, <1>4, AppendProperties
<1> HIDE DEF a
<1>6. \A i \in 1 .. k + 1 : i \in 1 .. k \/ i = k + 1
  OBVIOUS
<1>7. \A i \in 1 .. k + 1 : a[i] = t[i]
  BY <1>2, <1>3, <1>5, <1>6
<1>8. a = t
  BY <1>3, <1>5, <1>7, SeqEqual
<1>9. Blanks(0) = <<>>
  <2>1. Blanks(0) \in Seq(Chars) /\ Len(Blanks(0)) = 0
    BY <1>1
  <2> QED
    BY <2>1
<1> QED
  BY <1>2, <1>8, <1>9 DEF s, t, a

LEMMA TabbedNone == ASSUME NEW b, BufferOk(b) PROVE Tabbed(b, b, 0)
<1> DEFINE P == Pre(b, b.cursor)
           n == Len(P)
<1>1. b.cursor \in 0 .. b.len /\ b.cursor \in Nat /\ b.len \in Nat
  BY PlaceIs
<1>2. P[n] \in Seq(Chars)
  BY <1>1, CutIs
<1> HIDE DEF P, n
<1>3. P[n] \o Blanks(0) = P[n]
  <2>1. Blanks(0) = <<>>
    BY BlanksGrow
  <2> QED
    BY <1>2, <2>1, ConcatEmptySeq
<1>4. b.len = b.len + 0 /\ b.cursor = b.cursor + 0
  BY <1>1
<1> QED
  BY <1>3, <1>4 DEF Tabbed, P, n

LEMMA TabbedStep ==
  ASSUME NEW b, BufferOk(b), NEW k \in Nat, NEW u, Tabbed(b, u, k), u.len < EDITBUF_CAPACITY
  PROVE  Tabbed(b, Spaced(u), k + 1)
<1> DEFINE P == Pre(b, b.cursor)
           n == Len(P)
           R == Pre(u, u.cursor)
           v == eb_insert(u, SPACE)
           T == Pre(v, v.cursor)
<1>1. /\ BufferOk(u) /\ u.len = b.len + k /\ u.cursor = b.cursor + k
      /\ Post(u, u.cursor) = Post(b, b.cursor)
      /\ Len(R) = n /\ (\A i \in 1 .. n - 1 : R[i] = P[i]) /\ R[n] = P[n] \o Blanks(k)
  BY DEF Tabbed
<1>2. SPACE \in Chars /\ SPACE # NL
  BY DEF Chars, SPACE, NL
<1>3. b.cursor \in 0 .. b.len /\ b.cursor \in Nat /\ b.len \in Nat
  BY PlaceIs
<1>4. u.cursor \in 0 .. u.len
  <2>1. BufferOk(u)
    BY <1>1
  <2>2. u.cursor \in Nat /\ u.len \in Nat /\ u.cursor <= u.len
    BY <2>1, PlaceIs
  <2> QED
    BY <2>2
<1>5. /\ BufferOk(v) /\ v.len = u.len + 1 /\ v.cursor = u.cursor + 1
      /\ T = More(R, SPACE) /\ Post(v, v.cursor) = Post(u, u.cursor)
  <2>1. /\ BufferOk(v) /\ v.len = u.len + 1 /\ v.cursor = u.cursor + 1
        /\ Pre(v, u.cursor + 1) = More(R, SPACE) /\ Post(v, u.cursor + 1) = Post(u, u.cursor)
    BY <1>1, <1>2, InsertedIs
  <2> QED
    BY <2>1
<1>6. Written(R)
  BY <1>1, <1>4, CutIs
<1>7. P[n] \in Seq(Chars) /\ n \in Nat
  BY <1>3, CutIs
<1> HIDE DEF P, R, v, T
<1>8. MoreOf(R, SPACE, T)
  BY <1>2, <1>5, <1>6, MoreIs
<1>9. Len(T) = n /\ T[n] = Append(R[n], SPACE) /\ \A i \in 1 .. n - 1 : T[i] = R[i]
  BY <1>1, <1>2, <1>8 DEF MoreOf
<1> HIDE DEF n
<1>10. T[n] = P[n] \o Blanks(k + 1)
  <2>1. Blanks(k) \in Seq(Chars) /\ Append(Blanks(k), SPACE) = Blanks(k + 1)
    BY BlanksGrow
  <2>2. P[n] \o Append(Blanks(k), SPACE) = Append(P[n] \o Blanks(k), SPACE)
    BY <1>2, <1>7, <2>1, AppendConcat
  <2>3. PICK x : x = P[n] \o Blanks(k)
    OBVIOUS
  <2>4. R[n] = x /\ T[n] = Append(R[n], SPACE)
    BY <1>1, <1>9, <2>3
  <2>5. P[n] \o Blanks(k + 1) = Append(x, SPACE)
    BY <2>1, <2>2, <2>3
  <2> QED
    BY <2>4, <2>5
<1>11. v.len = b.len + (k + 1) /\ v.cursor = b.cursor + (k + 1)
  <2>1. v.len = (b.len + k) + 1 /\ v.cursor = (b.cursor + k) + 1
    BY <1>1, <1>5
  <2>2. \A i \in Nat : (i + k) + 1 = i + (k + 1)
    OBVIOUS
  <2> QED
    BY <1>3, <2>1, <2>2
<1>12. \A i \in 1 .. n - 1 : T[i] = P[i]
  BY <1>1, <1>9
<1>13. Tabbed(b, v, k + 1)
  BY <1>1, <1>5, <1>9, <1>10, <1>11, <1>12 DEF Tabbed, P, T, n
<1> QED
  BY <1>13 DEF Spaced, v

\* After as many spaces as there is room for, one more changes nothing.
LEMMA TabbedNext ==
  ASSUME NEW b, BufferOk(b), NEW room \in Nat, room = EDITBUF_CAPACITY - b.len,
         NEW k \in Nat, NEW j \in Nat, NEW u, Tabbed(b, u, j), j = Min({k, room})
  PROVE  Tabbed(b, Spaced(u), Min({k + 1, room}))
<1>1. j = (IF k <= room THEN k ELSE room) /\ k + 1 \in Nat
  BY LesserIs
<1>2. Min({k + 1, room}) = IF k + 1 <= room THEN k + 1 ELSE room
  BY <1>1, LesserIs
<1>3. u.len = b.len + j /\ b.len \in Nat /\ EDITBUF_CAPACITY \in Nat
  BY PlaceIs, BufferSizes DEF Tabbed
<1>4. CASE k + 1 <= room
  <2>1. j = k /\ u.len < EDITBUF_CAPACITY
    BY <1>1, <1>3, <1>4
  <2>2. Tabbed(b, Spaced(u), k + 1)
    BY <2>1, TabbedStep
  <2>3. Min({k + 1, room}) = k + 1
    BY <1>2, <1>4
  <2> QED
    BY <2>2, <2>3
<1>5. CASE ~(k + 1 <= room)
  <2>1. j = room
    BY <1>1, <1>5
  <2>2. b.len + room = EDITBUF_CAPACITY
    BY <1>3
  <2>3. u.len = EDITBUF_CAPACITY /\ EDITBUF_CAPACITY >= EDITBUF_CAPACITY
    BY <1>3, <2>1, <2>2
  <2>4. Spaced(u) = u
    BY <2>3 DEF Spaced, eb_insert
  <2>5. Min({k + 1, room}) = room
    BY <1>2, <1>5
  <2> QED
    BY <2>1, <2>4, <2>5
<1> QED
  BY <1>4, <1>5

TabTo(b, u, k) ==
  LET D == DocOf(b)
      n == AtRow(b) + 1
      l == D[n]
  IN  /\ DocOf(u) = [D EXCEPT ![n] = SubSeq(l, 1, AtCol(b)) \o Blanks(k) \o SubSeq(l, AtCol(b) + 1, Len(l))]
      /\ AtRow(u) = AtRow(b) /\ AtCol(u) = AtCol(b) + k

LEMMA TabbedIs ==
  ASSUME NEW b, BufferOk(b), NEW k \in Nat, NEW u, Tabbed(b, u, k)
  PROVE  BufferOk(u) /\ TabTo(b, u, k)
<1> DEFINE P == Pre(b, b.cursor)
           Q == Post(b, b.cursor)
           n == Len(P)
           p == P[n]
           q == Q[1]
           R == Pre(u, u.cursor)
           G == Glue(P, Q)
           H == Glue(R, Q)
<1>1. /\ BufferOk(u) /\ Post(u, u.cursor) = Q
      /\ Len(R) = n /\ (\A i \in 1 .. n - 1 : R[i] = P[i]) /\ R[n] = p \o Blanks(k)
  BY DEF Tabbed
<1>2. b.cursor \in 0 .. b.len /\ AtRow(b) \in Nat
  BY PlaceIs
<1>3. u.cursor \in 0 .. u.len /\ AtRow(u) \in Nat
  <2>1. BufferOk(u)
    BY <1>1
  <2>2. u.cursor \in Nat /\ u.len \in Nat /\ u.cursor <= u.len /\ AtRow(u) \in Nat
    BY <2>1, PlaceIs
  <2> QED
    BY <2>2
<1>4. /\ Written(P) /\ Written(Q) /\ DocOf(b) = G /\ p \in Seq(Chars) /\ q \in Seq(Chars)
      /\ n \in Nat /\ n = AtRow(b) + 1 /\ Len(p) \in Nat /\ Len(p) = AtCol(b)
  BY <1>2, CutIs DEF AtRow, AtCol
<1>5. Written(R) /\ DocOf(u) = H /\ Len(R) = AtRow(u) + 1 /\ Len(R[Len(R)]) = AtCol(u)
  <2>1. BufferOk(u) /\ Post(u, u.cursor) = Q
    BY <1>1
  <2>2. /\ Written(R) /\ DocOf(u) = Glue(R, Post(u, u.cursor))
        /\ Len(R) = Row(u, u.cursor) + 1 /\ Len(R[Len(R)]) = u.cursor - line_start(u, u.cursor)
    BY <1>3, <2>1, CutIs
  <2> QED
    BY <2>1, <2>2 DEF AtRow, AtCol
<1>6. Blanks(k) \in Seq(Chars) /\ Len(Blanks(k)) = k
  BY BlanksGrow
<1> HIDE DEF P, Q, R
<1>7. AtRow(u) = AtRow(b) /\ AtCol(u) = AtCol(b) + k
  <2> HIDE DEF p, n
  <2>1. p \in Seq(Chars) /\ Len(p) \in Nat
    BY <1>4
  <2>2. Len(p \o Blanks(k)) = Len(p) + Len(Blanks(k))
    BY <1>6, <2>1, TwoPieces
  <2>3. Len(p \o Blanks(k)) = Len(p) + k
    BY <1>6, <2>2
  <2>4. Len(R) = n /\ R[Len(R)] = p \o Blanks(k)
    BY <1>1
  <2>5. Len(R[Len(R)]) = Len(p) + k
    BY <2>3, <2>4
  <2> QED
    BY <1>2, <1>3, <1>4, <1>5, <2>4, <2>5
<1>8. Changes(G, n, R[n] \o q, H)
  BY <1>1, <1>4, <1>5, GlueLast
<1>9. G[n] = p \o q
  <2>1. GlueOf(P, Q, G)
    BY <1>4, GlueIs
  <2> QED
    BY <2>1 DEF GlueOf
<1> HIDE DEF G, H
<1>10. SubSeq(p \o q, 1, Len(p)) = p /\ SubSeq(p \o q, Len(p) + 1, Len(p \o q)) = q
  BY <1>4, TwoPieces
<1> HIDE DEF p, q, n
<1>11. SubSeq(G[n], 1, AtCol(b)) = p /\ SubSeq(G[n], AtCol(b) + 1, Len(G[n])) = q
  BY <1>4, <1>9, <1>10
<1>12. H = [G EXCEPT ![n] = p \o Blanks(k) \o q]
  BY <1>1, <1>8 DEF Changes
<1> QED
  BY <1>1, <1>4, <1>5, <1>7, <1>11, <1>12 DEF TabTo

LEMMA TabIs ==
  ASSUME NEW b, BufferOk(b)
  PROVE  LET u == Spaced(Spaced(Spaced(Spaced(b))))
         IN  BufferOk(u) /\ TabTo(b, u, Min({4, EDITBUF_CAPACITY - b.len}))
<1>1. PICK room \in Nat : room = EDITBUF_CAPACITY - b.len
  <2>1. EDITBUF_CAPACITY - b.len \in Nat
    BY BufferFields, BufferSizes
  <2> QED
    BY <2>1
<1>2. \A k \in Nat : Min({k, room}) \in Nat
  BY LesserIs
<1>3. ASSUME NEW u, NEW k \in Nat, Tabbed(b, u, Min({k, room}))
      PROVE  Tabbed(b, Spaced(u), Min({k + 1, room}))
  BY <1>1, <1>2, <1>3, TabbedNext
<1>4. Tabbed(b, b, Min({0, room}))
  <2>1. Min({0, room}) = 0
    BY LesserIs
  <2> QED
    BY <2>1, TabbedNone
<1>5. 0 + 1 = 1 /\ 1 + 1 = 2 /\ 2 + 1 = 3 /\ 3 + 1 = 4 /\ 0 \in Nat /\ 1 \in Nat /\ 2 \in Nat /\ 3 \in Nat /\ 4 \in Nat
  OBVIOUS
<1>6. Tabbed(b, Spaced(b), Min({1, room}))
  BY <1>3, <1>4, <1>5
<1>7. Tabbed(b, Spaced(Spaced(b)), Min({2, room}))
  BY <1>3, <1>5, <1>6
<1>8. Tabbed(b, Spaced(Spaced(Spaced(b))), Min({3, room}))
  BY <1>3, <1>5, <1>7
<1>9. Tabbed(b, Spaced(Spaced(Spaced(Spaced(b)))), Min({4, room}))
  BY <1>3, <1>5, <1>8
<1> QED
  BY <1>1, <1>2, <1>5, <1>9, TabbedIs

-----------------------------------------------------------------------------
(* The editor is a list of lines.                                          *)

LEMMA ViewIs == Document = DocOf(eb) /\ CursorRow = AtRow(eb) /\ CursorCol = AtCol(eb)
<1>1. Document = DocOf(eb)
  BY DEF Document, DocOf, Flat
<1>2. CursorRow = AtRow(eb)
  BY DEF CursorRow, AtRow, Row, Breaks
<1>3. CursorCol = AtCol(eb)
  BY DEF CursorCol, AtCol
<1> QED
  BY <1>1, <1>2, <1>3

\* The list of lines before a step and after it.
LEMMA Views ==
  /\ Document = DocOf(eb) /\ CursorRow = AtRow(eb) /\ CursorCol = AtCol(eb)
  /\ Document' = DocOf(eb') /\ CursorRow' = AtRow(eb') /\ CursorCol' = AtCol(eb')
<1>1. (Document = DocOf(eb) /\ CursorRow = AtRow(eb) /\ CursorCol = AtCol(eb))'
  BY ViewIs, PTL
<1> QED
  BY <1>1, ViewIs

\* The instance has the operators of the libraries under names of its own.
LEMMA SameHelpers ==
  /\ \A S : TL!Cardinality(S) = Cardinality(S)
  /\ \A S : TL!Min(S) = Min(S)
  /\ \A s, i, c : TL!InsertAt(s, i, c) = InsertAt(s, i, c)
  /\ \A s, i : TL!RemoveAt(s, i) = RemoveAt(s, i)
<1>1. \A S : TL!Cardinality(S) = Cardinality(S)
  BY DEF TL!Cardinality, Cardinality
<1>2. \A S : TL!Min(S) = Min(S)
  BY DEF TL!Min, Min
<1>3. \A s, i, c : TL!InsertAt(s, i, c) = InsertAt(s, i, c)
  BY DEF TL!InsertAt, InsertAt
<1>4. \A s, i : TL!RemoveAt(s, i) = RemoveAt(s, i)
  BY DEF TL!RemoveAt, RemoveAt
<1> QED
  BY <1>1, <1>2, <1>3, <1>4

LEMMA UsedIs == ASSUME BufferOk(eb) PROVE TL!Used = eb.len
<1>1. TL!Places = PlacesIn(Document)
  BY DEF TL!Places, PlacesIn
<1>2. eb.len \in 0 .. eb.len /\ eb.len \in Nat
  BY PlaceIs
<1>3. Flat(eb, eb.len) \in Seq(Chars) /\ Len(Flat(eb, eb.len)) = eb.len
  BY <1>2, Halves
<1>4. Size(DocOf(eb), eb.len)
  <2>1. Size(LinesOf(Flat(eb, eb.len)), Len(Flat(eb, eb.len)))
    BY <1>3, LinesSize
  <2> QED
    BY <1>3, <2>1 DEF DocOf
<1>5. Cardinality(PlacesIn(DocOf(eb))) + Len(DocOf(eb)) - 1 = eb.len
  BY <1>4 DEF Size
<1> QED
  BY <1>1, <1>5, ViewIs, SameHelpers DEF TL!Used

LEMMA ShowsLeft ==
  ASSUME BufferOk(eb), eb.cursor > 0, eb' = At(eb, eb.cursor - 1)
  PROVE  TL!Left
<1>1. /\ DocOf(eb') = DocOf(eb) /\ eb'.dirty = eb.dirty /\ eb'.goal_col = -1
      /\ \/ AtCol(eb) > 0 /\ AtRow(eb') = AtRow(eb) /\ AtCol(eb') = AtCol(eb) - 1
         \/ /\ AtCol(eb) = 0 /\ AtRow(eb) > 0
            /\ AtRow(eb') = AtRow(eb) - 1 /\ AtCol(eb') = Len(DocOf(eb)[AtRow(eb)])
  BY LeftIs
<1> QED
  BY <1>1, Views DEF TL!Left, TL!At

LEMMA ShowsRight ==
  ASSUME BufferOk(eb), eb.cursor < eb.len, eb' = At(eb, eb.cursor + 1)
  PROVE  TL!Right
<1>1. /\ DocOf(eb') = DocOf(eb) /\ eb'.dirty = eb.dirty /\ eb'.goal_col = -1
      /\ \/ /\ AtCol(eb) < Len(DocOf(eb)[AtRow(eb) + 1])
            /\ AtRow(eb') = AtRow(eb) /\ AtCol(eb') = AtCol(eb) + 1
         \/ /\ AtCol(eb) = Len(DocOf(eb)[AtRow(eb) + 1]) /\ AtRow(eb) + 1 < Len(DocOf(eb))
            /\ AtRow(eb') = AtRow(eb) + 1 /\ AtCol(eb') = 0
  BY RightIs
<1> QED
  BY <1>1, Views DEF TL!Right, TL!At, TL!Here

LEMMA ShowsHome ==
  ASSUME BufferOk(eb), eb' = At(eb, line_start(eb, eb.cursor))
  PROVE  TL!Home
<1>1. /\ DocOf(eb') = DocOf(eb) /\ eb'.dirty = eb.dirty /\ eb'.goal_col = -1
      /\ AtRow(eb') = AtRow(eb) /\ AtCol(eb') = 0
  BY HomeIs
<1> QED
  BY <1>1, Views DEF TL!Home, TL!At

LEMMA ShowsEnd ==
  ASSUME BufferOk(eb), eb' = At(eb, line_end(eb, eb.cursor))
  PROVE  TL!End
<1>1. /\ DocOf(eb') = DocOf(eb) /\ eb'.dirty = eb.dirty /\ eb'.goal_col = -1
      /\ AtRow(eb') = AtRow(eb) /\ AtCol(eb') = Len(DocOf(eb)[AtRow(eb) + 1])
  BY EndKeyIs
<1> QED
  BY <1>1, Views DEF TL!End, TL!At, TL!Here

LEMMA ShowsVertical ==
  ASSUME NEW r, VerticalTo(eb, eb', r)
  PROVE  TL!Vertical(r)
<1>1. DocOf(eb') = DocOf(eb) /\ eb'.dirty = eb.dirty
      /\ eb'.goal_col = IF eb.goal_col = -1 THEN AtCol(eb) ELSE eb.goal_col
  BY DEF VerticalTo, GoalOf
<1>2. IF r \in 0 .. Len(DocOf(eb)) - 1
      THEN AtRow(eb') = r /\ AtCol(eb') = Min({eb'.goal_col, Len(DocOf(eb)[r + 1])})
      ELSE AtRow(eb') = AtRow(eb) /\ AtCol(eb') = AtCol(eb)
  BY DEF VerticalTo
<1> QED
  BY <1>1, <1>2, Views, SameHelpers DEF TL!Vertical, TL!At

\* A key that leads nowhere.
LEMMA ShowsNothing ==
  ASSUME BufferOk(eb), eb' = At(eb, eb.cursor)
  PROVE  TL!Nothing
<1>1. eb.cursor \in 0 .. eb.len
  BY PlaceIs
<1>2. /\ DocOf(eb') = DocOf(eb) /\ eb'.dirty = eb.dirty /\ eb'.goal_col = -1
      /\ AtRow(eb') = AtRow(eb) /\ AtCol(eb') = AtCol(eb)
  BY <1>1, AtIs DEF AtRow, AtCol
<1> QED
  BY <1>2, Views DEF TL!Nothing, TL!At

LEMMA ShowsStart == ASSUME BufferOk(eb), eb.cursor = 0 PROVE TL!AtStart
<1>1. AtRow(eb) = 0
  BY RowStep DEF AtRow
<1>2. AtCol(eb) = 0
  BY StartStep DEF AtCol
<1> QED
  BY <1>1, <1>2, ViewIs DEF TL!AtStart

LEMMA ShowsEndOfText == ASSUME BufferOk(eb), eb.cursor = eb.len PROVE TL!AtEnd
<1>1. PICK k \in Nat : k = eb.cursor /\ k = eb.len /\ k \in 0 .. eb.len
  BY PlaceIs
<1>2. Len(DocOf(eb)) = Row(eb, k) + 1 /\ Len(DocOf(eb)[Row(eb, k) + 1]) = k - line_start(eb, k)
  BY <1>1, LineLength
<1>3. AtRow(eb) + 1 = Len(DocOf(eb)) /\ AtCol(eb) = Len(DocOf(eb)[AtRow(eb) + 1])
  BY <1>1, <1>2 DEF AtRow, AtCol
<1> QED
  BY <1>3, ViewIs DEF TL!AtEnd, TL!Here

\* A key that may change the text.
LEMMA ShowsChanged ==
  ASSUME NEW u, BufferOk(u), eb' = Changed(u)
  PROVE  /\ DocOf(eb') = DocOf(u) /\ AtRow(eb') = AtRow(u) /\ AtCol(eb') = AtCol(u)
         /\ eb'.goal_col = -1 /\ eb'.dirty = TRUE /\ TL!Edited
<1>1. /\ DocOf(eb') = DocOf(u) /\ AtRow(eb') = AtRow(u) /\ AtCol(eb') = AtCol(u)
      /\ eb'.dirty = TRUE /\ eb'.goal_col = -1
  BY ChangedIs
<1>2. TL!Edited
  BY <1>1 DEF TL!Edited
<1> QED
  BY <1>1, <1>2

LEMMA ShowsType ==
  ASSUME BufferOk(eb), NEW c \in Printable, eb.len < EDITBUF_CAPACITY, eb' = Changed(eb_insert(eb, c))
  PROVE  TL!Type(c)
<1> DEFINE u == eb_insert(eb, c)
<1>1. c \in Chars /\ c # NL
  BY KeyNames
<1>2. TypedTo(eb, u, c)
  BY <1>1, TypedIs
<1>3. BufferOk(u)
  BY <1>1, InsertKeepsBuffer
<1> HIDE DEF u
<1>4. DocOf(eb') = DocOf(u) /\ AtRow(eb') = AtRow(u) /\ AtCol(eb') = AtCol(u) /\ TL!Edited
  BY <1>3, ShowsChanged DEF u
<1>5. /\ DocOf(eb') = [DocOf(eb) EXCEPT ![AtRow(eb) + 1] = InsertAt(DocOf(eb)[AtRow(eb) + 1], AtCol(eb) + 1, c)]
      /\ AtRow(eb') = AtRow(eb) /\ AtCol(eb') = AtCol(eb) + 1
  BY <1>2, <1>4 DEF TypedTo
<1>6. TL!Used < EDITBUF_CAPACITY
  BY UsedIs
<1> QED
  BY <1>4, <1>5, <1>6, Views, SameHelpers DEF TL!Type, TL!Put, TL!At, TL!Here

LEMMA ShowsSplit ==
  ASSUME BufferOk(eb), eb.len < EDITBUF_CAPACITY, eb' = Changed(eb_insert(eb, NL))
  PROVE  TL!Split
<1> DEFINE u == eb_insert(eb, NL)
<1>1. NL \in Chars
  BY KeyNames
<1>2. SplitTo(eb, u)
  BY <1>1, TypedIs
<1>3. BufferOk(u)
  BY <1>1, InsertKeepsBuffer
<1> HIDE DEF u
<1>4. DocOf(eb') = DocOf(u) /\ AtRow(eb') = AtRow(u) /\ AtCol(eb') = AtCol(u) /\ TL!Edited
  BY <1>3, ShowsChanged DEF u
<1> DEFINE D == DocOf(eb)
           l == D[AtRow(eb) + 1]
<1>5. /\ DocOf(eb') = SubSeq(D, 1, AtRow(eb)) \o <<SubSeq(l, 1, AtCol(eb)), SubSeq(l, AtCol(eb) + 1, Len(l))>>
                         \o SubSeq(D, AtRow(eb) + 2, Len(D))
      /\ AtRow(eb') = AtRow(eb) + 1 /\ AtCol(eb') = 0
  BY <1>2, <1>4 DEF SplitTo
<1>6. TL!Used < EDITBUF_CAPACITY
  BY UsedIs
<1> QED
  BY <1>4, <1>5, <1>6, Views DEF TL!Split, TL!At, TL!Here

\* A key that would add a character to a full text.
LEMMA ShowsFull ==
  ASSUME BufferOk(eb), NEW c, ~(eb.len < EDITBUF_CAPACITY), eb' = Changed(eb_insert(eb, c))
  PROVE  TL!NoRoom
<1>1. eb.len >= EDITBUF_CAPACITY /\ eb.len = EDITBUF_CAPACITY
  BY BufferFields, BufferSizes
<1>2. eb_insert(eb, c) = eb
  BY <1>1 DEF eb_insert
<1>3. /\ DocOf(eb') = DocOf(eb) /\ AtRow(eb') = AtRow(eb) /\ AtCol(eb') = AtCol(eb)
      /\ TL!Edited
  BY <1>2, ShowsChanged
<1>4. TL!Used = EDITBUF_CAPACITY
  BY <1>1, UsedIs
<1> QED
  BY <1>3, <1>4, Views DEF TL!NoRoom, TL!At

LEMMA ShowsTab ==
  ASSUME BufferOk(eb), eb' = Changed(Spaced(Spaced(Spaced(Spaced(eb)))))
  PROVE  TL!Tab
<1> DEFINE u == Spaced(Spaced(Spaced(Spaced(eb))))
           k == Min({4, EDITBUF_CAPACITY - eb.len})
<1>1. BufferOk(u) /\ TabTo(eb, u, k)
  BY TabIs
<1> HIDE DEF u
<1>2. DocOf(eb') = DocOf(u) /\ AtRow(eb') = AtRow(u) /\ AtCol(eb') = AtCol(u) /\ TL!Edited
  BY <1>1, ShowsChanged DEF u
<1> DEFINE D == DocOf(eb)
           l == D[AtRow(eb) + 1]
<1>3. TL!Min({4, EDITBUF_CAPACITY - TL!Used}) = k
  BY UsedIs, SameHelpers
<1> HIDE DEF k
<1>4. /\ DocOf(eb') = [D EXCEPT ![AtRow(eb) + 1] =
                          SubSeq(l, 1, AtCol(eb)) \o [i \in 1 .. k |-> " "] \o SubSeq(l, AtCol(eb) + 1, Len(l))]
      /\ AtRow(eb') = AtRow(eb) /\ AtCol(eb') = AtCol(eb) + k
  BY <1>1, <1>2 DEF TabTo, Blanks
<1> QED
  BY <1>2, <1>3, <1>4, Views DEF TL!Tab, TL!Put, TL!At, TL!Here

LEMMA ShowsDelete ==
  ASSUME BufferOk(eb), eb.cursor < eb.len, eb' = Changed(eb_erase(eb, eb.cursor))
  PROVE  TL!Delete
<1> DEFINE u == eb_erase(eb, eb.cursor)
<1>1. /\ BufferOk(u) /\ AtRow(u) = AtRow(eb) /\ AtCol(u) = AtCol(eb)
      /\ JoinedTo(eb, u) \/ RemovedTo(eb, u)
  BY DeleteIs
<1> HIDE DEF u
<1>2. DocOf(eb') = DocOf(u) /\ AtRow(eb') = AtRow(u) /\ AtCol(eb') = AtCol(u) /\ TL!Edited
  BY <1>1, ShowsChanged DEF u
<1>3. TL!At(CursorRow, CursorCol)
  BY <1>1, <1>2, Views DEF TL!At
<1>4. CASE JoinedTo(eb, u)
  <2> DEFINE D == DocOf(eb)
             n == AtRow(eb)
  <2>1. /\ AtCol(eb) = Len(D[n + 1]) /\ n + 1 < Len(D)
        /\ DocOf(eb') = SubSeq(D, 1, n) \o <<D[n + 1] \o D[n + 2]>> \o SubSeq(D, n + 3, Len(D))
    BY <1>1, <1>2, <1>4 DEF JoinedTo
  <2>2. /\ CursorCol = Len(TL!Here) /\ CursorRow + 1 < Len(Document)
        /\ Document' = TL!Joined(CursorRow)
    BY <2>1, Views DEF TL!Joined, TL!Here
  <2> QED
    BY <1>2, <1>3, <2>2 DEF TL!Delete
<1>5. CASE RemovedTo(eb, u)
  <2> DEFINE D == DocOf(eb)
             n == AtRow(eb)
  <2>1. AtCol(eb) < Len(D[n + 1]) /\ DocOf(eb') = [D EXCEPT ![n + 1] = RemoveAt(D[n + 1], AtCol(eb) + 1)]
    BY <1>1, <1>2, <1>5 DEF RemovedTo
  <2>2. CursorCol < Len(TL!Here) /\ TL!Put(TL!RemoveAt(TL!Here, CursorCol + 1))
    BY <2>1, Views, SameHelpers DEF TL!Put, TL!Here
  <2> QED
    BY <1>2, <1>3, <2>2 DEF TL!Delete
<1> QED
  BY <1>1, <1>4, <1>5

LEMMA ShowsBackspace ==
  ASSUME BufferOk(eb), eb.cursor > 0,
         eb' = Changed(eb_erase([eb EXCEPT !.cursor = eb.cursor - 1], eb.cursor - 1))
  PROVE  TL!Backspace
<1> DEFINE u == eb_erase([eb EXCEPT !.cursor = eb.cursor - 1], eb.cursor - 1)
           D == DocOf(eb)
           n == AtRow(eb)
<1>1. /\ BufferOk(u)
      /\ \/ AtCol(eb) > 0 /\ AtRow(u) = n /\ AtCol(u) = AtCol(eb) - 1 /\ RemovedTo(eb, u)
         \/ AtCol(eb) = 0 /\ n > 0 /\ AtRow(u) = n - 1 /\ JoinedTo(eb, u)
  BY BackspaceIs
<1> HIDE DEF u
<1>2. DocOf(eb') = DocOf(u) /\ AtRow(eb') = AtRow(u) /\ AtCol(eb') = AtCol(u) /\ TL!Edited
  BY <1>1, ShowsChanged DEF u
<1>3. n \in Nat /\ AtCol(eb) \in Nat
  BY PlaceIs
<1>4. CASE AtCol(eb) > 0 /\ AtRow(u) = n /\ AtCol(u) = AtCol(eb) - 1 /\ RemovedTo(eb, u)
  <2>1. (AtCol(eb) - 1) + 1 = AtCol(eb)
    BY <1>3
  <2>2. DocOf(eb') = [D EXCEPT ![n + 1] = RemoveAt(D[n + 1], AtCol(eb))]
    BY <1>2, <1>4, <2>1 DEF RemovedTo
  <2>3. TL!Put(TL!RemoveAt(TL!Here, CursorCol))
    BY <2>2, Views, SameHelpers DEF TL!Put, TL!Here
  <2>4. CursorCol > 0 /\ TL!At(CursorRow, CursorCol - 1)
    BY <1>2, <1>4, Views DEF TL!At
  <2> QED
    BY <1>2, <2>3, <2>4 DEF TL!Backspace
<1>5. CASE AtCol(eb) = 0 /\ n > 0 /\ AtRow(u) = n - 1 /\ JoinedTo(eb, u)
  <2>1. (n - 1) + 1 = n
    BY <1>3
  <2>2. /\ AtCol(u) = Len(D[(n - 1) + 1])
        /\ DocOf(eb') = SubSeq(D, 1, n - 1) \o <<D[(n - 1) + 1] \o D[(n - 1) + 2]>>
                          \o SubSeq(D, (n - 1) + 3, Len(D))
    BY <1>2, <1>5 DEF JoinedTo
  <2>3. Document' = TL!Joined(CursorRow - 1)
    BY <2>2, Views DEF TL!Joined
  <2>4. TL!At(CursorRow - 1, Len(Document[CursorRow]))
    BY <1>2, <1>5, <2>1, <2>2, Views DEF TL!At
  <2> QED
    BY <1>2, <1>5, <2>3, <2>4, Views DEF TL!Backspace
<1> QED
  BY <1>1, <1>4, <1>5

\* Each key is the abstract editor's.
LEMMA KeyShows ==
  ASSUME BufferOk(eb), NEW key \in Keys, eb' = editbuf_key(eb, key)
  PROVE  TL!Pressed(key)
<1> USE DEF NL, BS
<1>0. eb.len \in Nat /\ eb.cursor \in Nat /\ eb.cursor <= eb.len
  BY BufferFields
<1>a. key \in Printable => key \notin {NL, BS, "TAB", "LEFT", "RIGHT", "UP", "DOWN", "HOME",
                                        "END", "DELETE", "ESC"}
  BY KeyNames
<1>1. CASE key = "LEFT"
  <2>1. eb' = At(eb, IF eb.cursor > 0 THEN eb.cursor - 1 ELSE 0)
    BY <1>a, <1>1 DEF editbuf_key
  <2>2. CASE eb.cursor > 0
    BY <1>1, <2>1, <2>2, ShowsLeft DEF TL!Pressed
  <2>3. CASE ~(eb.cursor > 0)
    <3>1. eb.cursor = 0
      BY <1>0, <2>3
    <3>2. eb' = At(eb, eb.cursor)
      BY <2>1, <2>3, <3>1
    <3>3. TL!Nothing /\ TL!AtStart
      BY <3>1, <3>2, ShowsNothing, ShowsStart
    <3>4. TL!Left
      BY <3>3 DEF TL!Left, TL!Nothing
    <3> QED
      BY <1>1, <3>4 DEF TL!Pressed
  <2> QED
    BY <2>2, <2>3
<1>2. CASE key = "RIGHT"
  <2>1. eb' = At(eb, IF eb.cursor < eb.len THEN eb.cursor + 1 ELSE eb.cursor)
    BY <1>a, <1>2 DEF editbuf_key
  <2>2. CASE eb.cursor < eb.len
    BY <1>2, <2>1, <2>2, ShowsRight DEF TL!Pressed
  <2>3. CASE ~(eb.cursor < eb.len)
    <3>1. eb.cursor = eb.len
      BY <1>0, <2>3
    <3>2. TL!Nothing /\ TL!AtEnd
      BY <2>1, <2>3, <3>1, ShowsNothing, ShowsEndOfText
    <3>3. TL!Right
      BY <3>2 DEF TL!Right, TL!Nothing
    <3> QED
      BY <1>2, <3>3 DEF TL!Pressed
  <2> QED
    BY <2>2, <2>3
<1>3. CASE key = "UP"
  <2>1. eb' = eb_up(eb)
    BY <1>a, <1>3 DEF editbuf_key
  <2>2. VerticalTo(eb, eb', AtRow(eb) - 1)
    BY <2>1, UpIs
  <2>3. TL!Vertical(CursorRow - 1)
    BY <2>2, ShowsVertical, ViewIs
  <2> QED
    BY <1>3, <2>3 DEF TL!Pressed
<1>4. CASE key = "DOWN"
  <2>1. eb' = eb_down(eb)
    BY <1>a, <1>4 DEF editbuf_key
  <2>2. VerticalTo(eb, eb', AtRow(eb) + 1)
    BY <2>1, DownIs
  <2>3. TL!Vertical(CursorRow + 1)
    BY <2>2, ShowsVertical, ViewIs
  <2> QED
    BY <1>4, <2>3 DEF TL!Pressed
<1>5. CASE key = "HOME"
  <2>1. eb' = At(eb, line_start(eb, eb.cursor))
    BY <1>a, <1>5 DEF editbuf_key
  <2> QED
    BY <1>5, <2>1, ShowsHome DEF TL!Pressed
<1>6. CASE key = "END"
  <2>1. eb' = At(eb, line_end(eb, eb.cursor))
    BY <1>a, <1>6 DEF editbuf_key
  <2> QED
    BY <1>6, <2>1, ShowsEnd DEF TL!Pressed
<1>7. CASE key = "DELETE"
  <2>1. CASE eb.cursor < eb.len
    <3>1. eb' = Changed(eb_erase(eb, eb.cursor))
      BY <1>a, <1>7, <2>1 DEF editbuf_key
    <3> QED
      BY <1>7, <2>1, <3>1, ShowsDelete DEF TL!Pressed
  <2>2. CASE ~(eb.cursor < eb.len)
    <3>1. eb' = At(eb, eb.cursor)
      BY <1>a, <1>7, <2>2 DEF editbuf_key
    <3>2. eb.cursor = eb.len
      BY <1>0, <2>2
    <3>3. TL!Delete
      BY <3>1, <3>2, ShowsNothing, ShowsEndOfText DEF TL!Delete
    <3> QED
      BY <1>7, <3>3 DEF TL!Pressed
  <2> QED
    BY <2>1, <2>2
<1>8. CASE key = BS
  <2>1. CASE eb.cursor > 0
    <3>1. eb' = Changed(eb_erase([eb EXCEPT !.cursor = eb.cursor - 1], eb.cursor - 1))
      BY <1>a, <1>8, <2>1 DEF editbuf_key
    <3> QED
      BY <1>8, <2>1, <3>1, ShowsBackspace DEF TL!Pressed
  <2>2. CASE ~(eb.cursor > 0)
    <3>1. eb' = At(eb, eb.cursor)
      BY <1>a, <1>8, <2>2 DEF editbuf_key
    <3>2. eb.cursor = 0
      BY <1>0, <2>2
    <3>3. TL!Backspace
      BY <3>1, <3>2, ShowsNothing, ShowsStart DEF TL!Backspace
    <3> QED
      BY <1>8, <3>3 DEF TL!Pressed
  <2> QED
    BY <2>1, <2>2
<1>9. CASE key = "TAB"
  <2>1. eb' = Changed(Spaced(Spaced(Spaced(Spaced(eb)))))
    BY <1>a, <1>9 DEF editbuf_key
  <2> QED
    BY <1>9, <2>1, ShowsTab DEF TL!Pressed
<1>10. CASE key \in Printable \cup {NL}
  <2>1. eb' = Changed(eb_insert(eb, key))
    BY <1>a, <1>10 DEF editbuf_key
  <2>2. CASE key = NL
    <3>1. TL!Split
      <4>1. CASE eb.len < EDITBUF_CAPACITY
        BY <2>1, <2>2, <4>1, ShowsSplit
      <4>2. CASE ~(eb.len < EDITBUF_CAPACITY)
        BY <2>1, <4>2, ShowsFull DEF TL!Split
      <4> QED
        BY <4>1, <4>2
    <3> QED
      BY <2>2, <3>1 DEF TL!Pressed
  <2>3. CASE key \in Printable
    <3>1. TL!Type(key)
      <4>1. CASE eb.len < EDITBUF_CAPACITY
        BY <2>1, <2>3, <4>1, ShowsType
      <4>2. CASE ~(eb.len < EDITBUF_CAPACITY)
        BY <2>1, <4>2, ShowsFull DEF TL!Type
      <4> QED
        BY <4>1, <4>2
    <3> QED
      BY <2>3, <3>1 DEF TL!Pressed
  <2> QED
    BY <1>10, <2>2, <2>3
<1>11. CASE key = "ESC"
  <2>1. eb' = eb
    BY <1>a, <1>11 DEF editbuf_key
  <2>2. UNCHANGED TL!lineVars
    BY <2>1, Views DEF TL!lineVars
  <2> QED
    BY <1>11, <2>2 DEF TL!Pressed
<1> QED
  BY <1>1, <1>2, <1>3, <1>4, <1>5, <1>6, <1>7, <1>8, <1>9, <1>10, <1>11 DEF Keys

LEMMA SameKeys == TL!Keys = Keys
BY DEF TL!Keys, Keys

LEMMA EditorShows ==
  ASSUME BufferOk(eb), [EditorNext]_editorVars
  PROVE  [TL!Next]_(TL!lineVars)
<1>1. CASE \E key \in Keys : EditorKey(key)
  <2>1. PICK key \in Keys : eb' = editbuf_key(eb, key)
    BY <1>1 DEF EditorKey
  <2>2. TL!Pressed(key)
    BY <2>1, KeyShows
  <2> QED
    BY <2>2, SameKeys DEF TL!Next
<1>2. CASE EditorShow
  <2>1. eb' = [eb EXCEPT !.top_line = TopLine(eb)]
    BY <1>2 DEF EditorShow
  <2>2. /\ eb'.data = eb.data /\ eb'.len = eb.len /\ eb'.cursor = eb.cursor
        /\ eb'.goal_col = eb.goal_col /\ eb'.dirty = eb.dirty
    BY <2>1 DEF BufferOk, Buffers
  <2>3. SameText(eb, eb')
    BY <2>2 DEF SameText
  <2>4. DocOf(eb') = DocOf(eb) /\ AtRow(eb') = AtRow(eb) /\ AtCol(eb') = AtCol(eb)
    BY <2>2, <2>3, TextIs DEF AtRow, AtCol
  <2> QED
    BY <2>2, <2>4, Views DEF TL!lineVars
<1>3. CASE EditorSave
  <2>1. eb' = [eb EXCEPT !.dirty = FALSE]
    BY <1>3 DEF EditorSave
  <2>2. /\ eb'.data = eb.data /\ eb'.len = eb.len /\ eb'.cursor = eb.cursor
        /\ eb'.goal_col = eb.goal_col /\ eb'.dirty = FALSE
    BY <2>1 DEF BufferOk, Buffers
  <2>3. SameText(eb, eb')
    BY <2>2 DEF SameText
  <2>4. DocOf(eb') = DocOf(eb) /\ AtRow(eb') = AtRow(eb) /\ AtCol(eb') = AtCol(eb)
    BY <2>2, <2>3, TextIs DEF AtRow, AtCol
  <2>5. TL!Save
    BY <2>2, <2>4, Views DEF TL!Save
  <2> QED
    BY <2>5 DEF TL!Next
<1>4. CASE UNCHANGED editorVars
  <2>1. eb' = eb
    BY <1>4 DEF editorVars
  <2> QED
    BY <2>1, Views DEF TL!lineVars
<1> QED
  BY <1>1, <1>2, <1>3, <1>4 DEF EditorNext

LEMMA EditorStarts == ASSUME EditorInit PROVE TL!Init
<1>1. PICK d \in Documents :
        eb = [data |-> [i \in Offsets |-> IF i < Len(d) THEN d[i + 1] ELSE "?"], len |-> Len(d),
              cursor |-> 0, goal_col |-> -1, top_line |-> 0, dirty |-> FALSE]
  BY DEF EditorInit
<1>2. BufferOk(eb)
  BY EditorInitOk DEF EditorInv
<1>3. PICK n \in Nat : n = Len(d) /\ n <= EDITBUF_CAPACITY /\ d \in Seq(STRING)
  BY EditBufferAssumption
<1>4. eb.len = n /\ eb.cursor = 0 /\ eb.goal_col = -1 /\ eb.dirty = FALSE
  BY <1>1, <1>3
<1>5. \A i \in 1 .. n : eb.data[i - 1] = d[i]
  <2> SUFFICES ASSUME NEW i \in 1 .. n PROVE eb.data[i - 1] = d[i]
    OBVIOUS
  <2>1. i - 1 \in Offsets /\ i - 1 < n /\ (i - 1) + 1 = i
    BY <1>3, BufferSizes DEF Offsets
  <2> QED
    BY <1>1, <1>3, <2>1
<1>6. Flat(eb, n) = d
  <2>1. n \in 0 .. eb.len
    BY <1>4
  <2>2. /\ Flat(eb, n) \in Seq(Chars) /\ Len(Flat(eb, n)) = n
        /\ \A i \in 1 .. n : Flat(eb, n)[i] = eb.data[i - 1]
    BY <1>2, <2>1, Halves
  <2>3. d \in Seq(Chars)
    BY <1>3 DEF Chars
  <2>4. \A i \in 1 .. n : Flat(eb, n)[i] = d[i]
    BY <1>5, <2>2
  <2> QED
    BY <1>3, <2>2, <2>3, <2>4, SeqEqual
<1>7. DocOf(eb) = LinesOf(d)
  BY <1>4, <1>6 DEF DocOf
<1>8. AtRow(eb) = 0 /\ AtCol(eb) = 0
  <2>1. Row(eb, 0) = 0
    BY RowStep
  <2>2. line_start(eb, 0) = 0
    BY StartStep
  <2> QED
    BY <1>4, <2>1, <2>2 DEF AtRow, AtCol
<1> QED
  BY <1>4, <1>7, <1>8, Views DEF TL!Init

(* The flat array with its byte offset is a list of lines with a cursor:   *)
(* each key does there what a user thinks it does, at the ends of lines    *)
(* and in a full buffer as well, and rendering changes nothing.            *)
THEOREM EditorIsListOfLines == Spec => ImplementsLines
<1>1. Init => TL!Init
  BY EditorStarts DEF Init
<1>2. EditorInv /\ [Next]_textVars => [TL!Next]_(TL!lineVars)
  <2> SUFFICES ASSUME EditorInv, [Next]_textVars PROVE [TL!Next]_(TL!lineVars)
    OBVIOUS
  <2>1. [EditorNext]_editorVars
    BY DEF Next, textVars, editorVars
  <2> QED
    BY <2>1, EditorShows DEF EditorInv
<1>3. EditorInv => \A key \in Keys : EditorKey(key) => TL!Pressed(key)
  BY KeyShows DEF EditorInv, EditorKey
<1> DEFINE Does == editorVars' # editorVars => \A key \in Keys : EditorKey(key) => TL!Pressed(key)
<1>4. EditorInv /\ [Next]_textVars => [Does]_editorVars
  BY <1>3
<1>5. Spec => [][Does]_editorVars
  <2> HIDE DEF Does
  <2> QED
    BY <1>4, EditorInvariant, PTL DEF Spec
<1>6. Spec => TL!Spec
  BY <1>1, <1>2, EditorInvariant, PTL DEF Spec, TL!Spec
<1> QED
  BY <1>5, <1>6 DEF ImplementsLines
=============================================================================
