------------------------------ MODULE TextBox ------------------------------
(***************************************************************************)
(* src/gui/textbox.c: the grid of characters both text windows draw from.  *)
(* A textbox is the record of its C struct, with the cells by row and      *)
(* column; the zero that ends each row is never written.                   *)
(***************************************************************************)
EXTENDS Integers, Sequences, SequencesExt

NL == "newline"
BS == "backspace"
SPACE == " "

textbox_clear(tb) ==
  [tb EXCEPT !.cells = [r \in 0 .. tb.rows - 1 |-> [c \in 0 .. tb.cols - 1 |-> SPACE]],
             !.cursor_row = 0, !.cursor_col = 0]

textbox_init(cols, rows) ==
  textbox_clear([cols |-> cols, rows |-> rows, cells |-> <<>>,
                 cursor_row |-> 0, cursor_col |-> 0])

textbox_scroll(tb) ==
  [tb EXCEPT !.cells = [r \in 0 .. tb.rows - 1 |-> [c \in 0 .. tb.cols - 1 |->
                          IF r < tb.rows - 1 THEN tb.cells[r + 1][c] ELSE SPACE]]]

textbox_newline(tb) ==
  LET row == tb.cursor_row + 1
  IN  [(IF row >= tb.rows THEN textbox_scroll(tb) ELSE tb)
         EXCEPT !.cursor_col = 0, !.cursor_row = IF row >= tb.rows THEN tb.rows - 1 ELSE row]

\* A full row is left only when the next character comes.
textbox_putc(tb, ch) ==
  IF ch = NL THEN textbox_newline(tb)
  ELSE IF ch = BS
  THEN IF tb.cursor_col = 0 THEN tb
       ELSE [tb EXCEPT !.cursor_col = @ - 1, !.cells[tb.cursor_row][tb.cursor_col - 1] = SPACE]
  ELSE LET t == IF tb.cursor_col >= tb.cols THEN textbox_newline(tb) ELSE tb
       IN  [t EXCEPT !.cells[t.cursor_row][t.cursor_col] = ch, !.cursor_col = @ + 1]

textbox_puts(tb, s) ==
  LET after[n \in 0 .. Len(s)] == IF n = 0 THEN tb ELSE textbox_putc(after[n - 1], s[n])
  IN  after[Len(s)]
=============================================================================
