----------------------------- MODULE EditBuffer -----------------------------
(***************************************************************************)
(* src/gui/editbuf.c: the text editor's document, a flat array with a byte *)
(* offset for a cursor, and the part of it that is rendered into a textbox.*)
(* The editor renders when the window manager next draws, which may be     *)
(* several keys later.                                                     *)
(***************************************************************************)
EXTENDS TextBox, FiniteSets, FiniteSetsExt

CONSTANTS EDITBUF_CAPACITY,
          Printable,         \* the characters that are typed
          Documents,         \* what may be read from a file at the start
          TE_COLS, TE_ROWS

ASSUME EditBufferAssumption ==
  /\ EDITBUF_CAPACITY \in Nat \ {0} /\ TE_COLS \in Nat \ {0} /\ TE_ROWS \in Nat \ {0}
  /\ Documents \subseteq Seq(STRING) /\ \A d \in Documents : Len(d) <= EDITBUF_CAPACITY
  /\ Printable \subseteq STRING
  /\ Printable \cap {NL, BS, "TAB", "LEFT", "RIGHT", "UP", "DOWN", "HOME", "END", "DELETE", "ESC"} = {}

VARIABLES eb,      \* data, len, cursor, goal_col, top_line and dirty
          page     \* {} after a key, {its textbox} once that is rendered anew

editorVars == <<eb, page>>

Offsets == 0 .. EDITBUF_CAPACITY - 1

line_start(b, off) == Max({i \in 0 .. off : i = 0 \/ b.data[i - 1] = NL})

line_end(b, off) == Min({i \in off .. b.len : i = b.len \/ b.data[i] = NL})

eb_insert_Over(b, c) ==
  IF b.len >= EDITBUF_CAPACITY THEN b
  ELSE [b EXCEPT !.data = [b.data EXCEPT ![b.cursor] = c],
                 !.cursor = @ + 1, !.len = @ + 1]

eb_insert(b, c) ==
  IF b.len >= EDITBUF_CAPACITY THEN b
  ELSE [b EXCEPT !.data = [i \in Offsets |-> IF i = b.cursor THEN c
                                             ELSE IF i \in b.cursor + 1 .. b.len THEN b.data[i - 1]
                                             ELSE b.data[i]],
                 !.cursor = @ + 1, !.len = @ + 1]

eb_erase(b, at) ==
  [b EXCEPT !.data = [i \in Offsets |-> IF i \in at .. b.len - 2 THEN b.data[i + 1] ELSE b.data[i]],
            !.len = @ - 1]

\* The sticky column, set by the first of a run of vertical moves.
WithGoal(b) ==
  IF b.goal_col >= 0 THEN b ELSE [b EXCEPT !.goal_col = b.cursor - line_start(b, b.cursor)]

eb_up(b) ==
  LET g    == WithGoal(b)
      ls   == line_start(g, g.cursor)
      prev == line_start(g, ls - 1)
  IN  IF ls = 0 THEN g
      ELSE [g EXCEPT !.cursor = prev + Min({g.goal_col, ls - 1 - prev})]

eb_down(b) ==
  LET g    == WithGoal(b)
      le   == line_end(g, g.cursor)
      next == le + 1
  IN  IF le >= g.len THEN g
      ELSE [g EXCEPT !.cursor = next + Min({g.goal_col, line_end(g, next) - next})]

At(b, off) == [b EXCEPT !.cursor = off, !.goal_col = -1]

Changed(b) == [b EXCEPT !.dirty = TRUE, !.goal_col = -1]

Spaced(b) == eb_insert(b, SPACE)

Keys == Printable \cup {NL, BS, "TAB", "LEFT", "RIGHT", "UP", "DOWN", "HOME", "END", "DELETE", "ESC"}

editbuf_key(b, key) ==
  CASE key = "LEFT"   -> At(b, IF b.cursor > 0 THEN b.cursor - 1 ELSE 0)
    [] key = "RIGHT"  -> At(b, IF b.cursor < b.len THEN b.cursor + 1 ELSE b.cursor)
    [] key = "UP"     -> eb_up(b)
    [] key = "DOWN"   -> eb_down(b)
    [] key = "HOME"   -> At(b, line_start(b, b.cursor))
    [] key = "END"    -> At(b, line_end(b, b.cursor))
    [] key = "DELETE" -> IF b.cursor < b.len THEN Changed(eb_erase(b, b.cursor)) ELSE At(b, b.cursor)
    [] key = BS       -> IF b.cursor > 0
                         THEN Changed(eb_erase([b EXCEPT !.cursor = @ - 1], b.cursor - 1))
                         ELSE At(b, b.cursor)
    [] key = "TAB"    -> Changed(Spaced(Spaced(Spaced(Spaced(b)))))
    [] key \in Printable \cup {NL} -> Changed(eb_insert(b, key))
    [] OTHER          -> b

-----------------------------------------------------------------------------
(* editbuf_render. *)

Breaks(b, n) == {i \in 0 .. n - 1 : b.data[i] = NL}

TopLine_Short(b) ==
  LET line == Cardinality(Breaks(b, b.cursor))
      top  == Min({b.top_line, line})
  IN  IF line > top + TE_ROWS THEN line - TE_ROWS + 1 ELSE top

TopLine(b) ==
  LET line == Cardinality(Breaks(b, b.cursor))
      top  == Min({b.top_line, line})
  IN  IF line >= top + TE_ROWS THEN line - TE_ROWS + 1 ELSE top

\* The scan from the start of the top line: where each character falls.
Placed(b, top) ==
  LET from == Min({i \in 0 .. b.len : i = b.len \/ Cardinality(Breaks(b, i)) >= top})
      line(i) == Cardinality(Breaks(b, i)) - Cardinality(Breaks(b, from))
  IN  {[row |-> line(i), col |-> i - line_start(b, i), char |-> b.data[i]] :
         i \in {j \in from .. b.len - 1 : b.data[j] # NL}}

\* Nothing of what the textbox held is left.
editbuf_render(b, top) ==
  LET blank == textbox_init(TE_COLS, TE_ROWS)
      col   == b.cursor - line_start(b, b.cursor)
  IN  [blank EXCEPT
         !.cells = [r \in 0 .. TE_ROWS - 1 |-> [c \in 0 .. TE_COLS - 1 |->
                      LET here == {p \in Placed(b, top) : p.row = r /\ p.col = c}
                      IN  IF here = {} THEN SPACE ELSE (CHOOSE p \in here : TRUE).char]],
         !.cursor_row = Cardinality(Breaks(b, b.cursor)) - top,
         !.cursor_col = Min({col, TE_COLS - 1})]

-----------------------------------------------------------------------------

EditorInit ==
  /\ \E d \in Documents :
       eb = [data |-> [i \in Offsets |-> IF i < Len(d) THEN d[i + 1] ELSE "?"], len |-> Len(d),
             cursor |-> 0, goal_col |-> -1, top_line |-> 0, dirty |-> FALSE]
  /\ page = {}

EditorKey(key) == eb' = editbuf_key(eb, key) /\ page' = {}

EditorShow == LET top == TopLine(eb)
              IN  /\ page = {} /\ page' = {editbuf_render(eb, top)}
                  /\ eb' = [eb EXCEPT !.top_line = top]

\* te_save, once the file has been written.
EditorSave == eb' = [eb EXCEPT !.dirty = FALSE] /\ page' = {}

EditorNext == (\E key \in Keys : EditorKey(key)) \/ EditorShow \/ EditorSave

-----------------------------------------------------------------------------
(* Properties. *)

\* The text as a list of lines.
LinesOf(text) ==
  LET With(ls, c) == IF c = NL THEN Append(ls, <<>>)
                     ELSE [ls EXCEPT ![Len(ls)] = Append(@, c)]
      upto[n \in 0 .. Len(text)] == IF n = 0 THEN << <<>> >> ELSE With(upto[n - 1], text[n])
  IN  upto[Len(text)]

Document == LinesOf([i \in 1 .. eb.len |-> eb.data[i - 1]])
CursorRow == Cardinality({i \in 0 .. eb.cursor - 1 : eb.data[i] = NL})
CursorCol == eb.cursor - line_start(eb, eb.cursor)

TL == INSTANCE TextLines WITH
        Capacity <- EDITBUF_CAPACITY, Files <- {LinesOf(d) : d \in Documents},
        lines <- Document, row <- CursorRow, col <- CursorCol,
        goal <- eb.goal_col, modified <- eb.dirty

(* The flat array with its byte offset is the list of lines a user thinks  *)
(* of: each key does there what it is there for, at every line end and at  *)
(* a full buffer, vertical moves keep their column, and a change is never  *)
(* taken for saved.                                                        *)
ImplementsLines ==
  /\ TL!Spec
  /\ [][editorVars' # editorVars =>
           \A key \in Keys : EditorKey(key) => TL!Pressed(key)]_editorVars

(* Once rendered, the page shows the lines from top_line on, each cut at   *)
(* the last column, and nothing else; and the cursor is in view, where it  *)
(* is in the text (editbuf.h lines 34-36).                                 *)
PageShowsText ==
  \A tb \in page :
    /\ tb.cursor_row \in 0 .. TE_ROWS - 1
    /\ tb.cursor_row + eb.top_line = CursorRow
    /\ tb.cursor_col = Min({CursorCol, TE_COLS - 1})
    /\ \A r \in 0 .. TE_ROWS - 1, c \in 0 .. TE_COLS - 1 :
         tb.cells[r][c] =
           IF eb.top_line + r < Len(Document) /\ c < Len(Document[eb.top_line + r + 1])
           THEN Document[eb.top_line + r + 1][c + 1] ELSE SPACE
=============================================================================
